---- MODULE Spec2Model ----
(***************************************************************************)
(* A model of elasticbud: the path extractor recurse_splat_key             *)
(* (src/elasticbud/utils.py), the composite pagination driver              *)
(* get_response_value, the idempotent document gate document_exists, the   *)
(* bulk submitter doc_gen / index_to_elasticsearch with its retries and    *)
(* its index template, and the health check check_elasticsearch            *)
(* (src/elasticbud/elasticsearch.py).                                      *)
(*                                                                         *)
(* Python values are modelled as tagged nodes, one record field per kind:  *)
(*   [num |-> n]   a scalar that is no container (int, float, bool, None)  *)
(*   [str |-> s]   a string, s the sequence of its characters              *)
(*   [list |-> q]  a list, q the sequence of its elements                  *)
(*   [map |-> f]   a dict, f a function from its keys to its values        *)
(***************************************************************************)
EXTENDS Integers, Sequences, FiniteSets, TLC

VARIABLES
    exData,     \* recurse_splat_key: the argument data
    exKeys,     \* recurse_splat_key: the caller's list given as value_keys
    exOut,      \* the values the consumer has received from the generator
    exState     \* "ready" | "running" | "done" | "closed" | the name of the
                \* raised error

exVars == <<exData, exKeys, exOut, exState>>

VARIABLES
    pgBuckets,  \* the server: how many buckets the aggregated data has
    pgQuery,    \* get_response_value: the caller's query object
    pgKeys,     \* get_response_value: value_keys
    pgName,     \* get_response_value: composite_aggregation_name, "" for None
    pgLocal,    \* the generator's local `query`: an object of its own, or the caller's
    pgReqs,     \* the search bodies sent so far, in order
    pgResps,    \* the responses received so far, in order
    pgPos,      \* how many values of the current response have been yielded
    pgOut,      \* the values the consumer has received
    pgState     \* "ready" | "running" | "done" | the name of the raised error

pgVars == <<pgBuckets, pgQuery, pgKeys, pgName, pgLocal, pgReqs, pgResps, pgPos,
            pgOut, pgState>>

VARIABLES
    store,      \* the index: the stored documents, [id, src]
    searchable, \* the documents a search sees: the index as of its last refresh
    nextId,     \* the id the engine gives the next document it stores
    gPc,        \* document_exists: "idle" | "called" | "returned" | "raised"
    gDoc,       \* document_exists: doc
    gFields,    \* document_exists: identity_fields
    gDelete,    \* document_exists: delete_if_exists
    gAttempt,   \* the number of the attempt in progress (tenacity)
    gResult,    \* the value returned
    gHits,      \* the ids of the hits of the last search
    gDeleted,   \* the ids a delete was issued for, in order
    gSearches,  \* how many searches were issued
    gLog,       \* the requests issued, in order: "search" | "delete"
    gError,     \* the exception of the last attempt that raised, or "none"
    gRaised     \* the exception the caller receives, or "none"

esVars == <<store, searchable, nextId>>

gVars == <<gPc, gDoc, gFields, gDelete, gAttempt, gResult, gHits, gDeleted, gSearches,
          gLog, gError, gRaised>>

VARIABLES
    ixPc,       \* index_to_elasticsearch: "idle" | "template" | "bulk" | "doc" |
                \* "gate" | "failed"
    ixArgs,     \* the arguments of the call in progress
    ixAttempt,  \* the number of the attempt in progress (tenacity)
    ixBatches,  \* the batches still to submit, the one in progress first
    ixPos,      \* doc_gen: the position in the batch of the document at hand
    ixPending,  \* bulk: the documents doc_gen has yielded, not yet sent
    ixBefore,   \* the index when the call in progress began
    ixCalls,    \* the calls that have ended: arguments, index before, outcome
    ixTemplate, \* the kind of the argument index_template of the call in progress
    ixTemplated,\* how many put_template requests the call in progress has issued
    ixError,    \* the exception of the last attempt that raised, or "none"
    ixLog,      \* the calls the attempt in progress has issued, in order:
                \* "put_template" | "bulk" | "refresh" | "search" | "delete"
    ixStream,   \* the argument docs as an object: whether it can be consumed
                \* only once, and the documents it still gives
    ixSeen      \* how many documents doc_gen has taken in the attempt in progress

ixVars == <<ixPc, ixArgs, ixAttempt, ixBatches, ixPos, ixPending, ixBefore, ixCalls,
           ixTemplate, ixTemplated, ixError, ixLog, ixStream, ixSeen>>

VARIABLES
    twKeys,     \* two get_response_value generators: the value_keys of each
    twLocal,    \* the local `query` of each: a copy of its own, or the caller's object
    twReqs,     \* the search bodies each has sent, in order
    twResps,    \* the responses each has received, in order
    twPos,      \* how many values of its current response each has yielded
    twOut,      \* the values the consumer of each has received
    twState     \* of each: "ready" | "running" | "done" | the name of the raised error

twVars == <<twKeys, twLocal, twReqs, twResps, twPos, twOut, twState>>

VARIABLES
    hStatus,    \* the cluster: its health status
    hLink,      \* the cluster as the client finds it: "up" | "down" | "error"
    hPc,        \* check_elasticsearch: "idle" | "health" | "info"
    hHealth,    \* what cluster.health() gave: a status, or the exception raised
    hInfo,      \* what info() gave: "ok", or the exception raised
    hOutcome,   \* "returned", or the exception the caller receives
    hChecks,    \* how many calls of check_elasticsearch were made
    hRequests   \* how many cluster.health() requests were issued

hVars == <<hStatus, hLink, hPc, hHealth, hInfo, hOutcome, hChecks, hRequests>>

\* The client: whether it keeps a record of the calls made on it (gLog,
\* ixLog), as a recording client does; the calls are the same either way.
VARIABLE recording

vars == <<exVars, pgVars, esVars, gVars, ixVars, twVars, hVars, recording>>

\* What a step of one component leaves alone: the other components.
ExFrame == UNCHANGED <<pgVars, esVars, gVars, ixVars, twVars, hVars, recording>>

PgFrame == UNCHANGED <<exVars, esVars, gVars, ixVars, twVars, hVars, recording>>

GateFrame == UNCHANGED <<exVars, pgVars, ixVars, twVars, hVars, recording>>

IxFrame == UNCHANGED <<exVars, pgVars, twVars, hVars, recording>>

\* The two generators share the caller's query object, pgQuery.
TwFrame ==
    UNCHANGED <<exVars, esVars, gVars, ixVars, hVars, pgBuckets, pgKeys, pgName, pgLocal,
                pgReqs, pgResps, pgPos, pgOut, pgState, recording>>

HFrame == UNCHANGED <<exVars, pgVars, esVars, gVars, ixVars, twVars, recording>>

-----------------------------------------------------------------------------
\* The record of calls `log` after the calls `ops`.
Logged(log, ops) == IF recording THEN log \o ops ELSE log

-----------------------------------------------------------------------------
(* Bounds of the enumerated inputs.                                        *)

MaxLen == 2

MaxPath == 3

MaxBuckets == 4

MaxPageSize == 3

MaxStored == 2

MaxStream == 2

MaxBatch == 2
\* The longest list and the largest slice length batch() is tabulated for.
MaxList == 5
MaxSlice == 3

-----------------------------------------------------------------------------
(* Python values.                                                          *)

Num(n) == [num |-> n]

Str(s) == [str |-> s]

List(q) == [list |-> q]

Map(f) == [map |-> f]

IsList(d) == "list" \in DOMAIN d

IsMap(d) == "map" \in DOMAIN d

IsStr(d) == "str" \in DOMAIN d

IsNum(d) == "num" \in DOMAIN d

\* The characters of a path segment. The segments of the enumerated paths are
\* one character long; the longer keys of the search responses occur in no
\* string of the model and are kept whole.
Chars(key) == <<key>>

\* s has t as a contiguous run of characters (Python: t in s, for strings).
IsSubstring(t, s) ==
    \E i \in 0..(Len(s) - Len(t)) : \A j \in 1..Len(t) : s[i + j] = t[j]

\* Python's `value_key in data`: membership among a dict's keys, equality
\* with an element for a list, substring for a string, TypeError otherwise.
KeyIn(value_key, data) ==
    CASE IsMap(data) -> IF value_key \in DOMAIN data.map THEN "yes" ELSE "no"
      [] IsList(data) ->
            IF \E i \in 1..Len(data.list) : data.list[i] = Str(Chars(value_key))
            THEN "yes" ELSE "no"
      [] IsStr(data) -> IF IsSubstring(Chars(value_key), data.str) THEN "yes" ELSE "no"
      [] OTHER -> "TypeError"

-----------------------------------------------------------------------------
(* recurse_splat_key. A run of the generator is the sequence of the values *)
(* it yields and how it ends: err = "none" for a normal end, otherwise the *)
(* exception raised after the values were yielded.                         *)

Yield(vs) == [vals |-> vs, err |-> "none"]

Raise(e) == [vals |-> <<>>, err |-> e]

\* A slip for utils.py:30: `yield list(...)` in place of `yield from ...`, one
\* sequence per element.
YieldNested(acc, r) ==
    IF acc.err # "none" THEN acc
    ELSE [vals |-> <<List(acc.vals)>> \o r.vals, err |-> r.err]

\* `yield from` of run r after the run acc: nothing more once acc has raised.
YieldFrom(acc, r) ==
    IF acc.err # "none" THEN acc
    ELSE [vals |-> acc.vals \o r.vals, err |-> r.err]

\* utils.py:24-25. The message of AsteriskNotAtListError calls data.keys(),
\* which only a dict has: on any other value the f-string raises
\* AttributeError before the intended exception is built.
AsteriskNotAtList(data) ==
    IF IsMap(data) THEN Raise("AsteriskNotAtListError") ELSE Raise("AttributeError")

\* A slip for utils.py:27: `yield data` in place of `yield from data`.
SplatLastWhole(data) == Yield(<<data>>)

\* utils.py:26-27: the wildcard is the last segment.
SplatLast(data) == Yield(data.list)

\* utils.py:36-40: the literal key is the last segment.
KeyLast(datum) == Yield(<<datum>>)

RECURSIVE recurse_splat_key(_, _)
RECURSIVE SplatEach(_, _, _)

\* utils.py:29-30: for datum in data: yield from recurse_splat_key(datum, rest)
SplatEach(elems, rest, i) ==
    IF i > Len(elems) THEN Yield(<<>>)
    ELSE YieldFrom(recurse_splat_key(elems[i], rest), SplatEach(elems, rest, i + 1))

\* utils.py:33-42: a literal segment.
KeyStep(data, value_keys) ==
    LET value_key == Head(value_keys)
        found == KeyIn(value_key, data)
    IN  CASE found = "TypeError" -> Raise("TypeError")
          [] found = "no" -> Raise("RecursedToKeyError")
          [] OTHER ->
                IF ~IsMap(data) THEN Raise("TypeError")   \* data[value_key] on list/str
                ELSE IF Len(value_keys) = 1 THEN KeyLast(data.map[value_key])
                ELSE recurse_splat_key(data.map[value_key], Tail(value_keys))

recurse_splat_key(data, value_keys) ==
    IF value_keys = <<>> THEN Raise("IndexError")        \* value_keys[0]
    ELSE IF Head(value_keys) = "*" THEN
        IF ~IsList(data) THEN AsteriskNotAtList(data)
        ELSE IF Len(value_keys) = 1 THEN SplatLast(data)
        ELSE SplatEach(data.list, Tail(value_keys), 1)
    ELSE KeyStep(data, value_keys)

-----------------------------------------------------------------------------
(* The enumerated inputs of the extractor.                                 *)

Keys == {"a", "b"}

Segments == Keys \cup {"*"}

Scalars == {Num(0), Str(<<"a">>)}

SeqsUpTo(S, n) == UNION {[1..k -> S] : k \in 0..n}

MapsOver(S) == UNION {[D -> S] : D \in SUBSET Keys}

Grow(S) == S \cup {List(q) : q \in SeqsUpTo(S, MaxLen)} \cup {Map(f) : f \in MapsOver(S)}

Trees == Grow(Grow(Scalars))

Paths == UNION {[1..k -> Segments] : k \in 1..MaxPath}

-----------------------------------------------------------------------------
(* The extractor driven by a consumer, one pull at a time.                 *)

ExInit ==
    /\ exData \in Trees
    /\ exKeys \in Paths
    /\ exOut = <<>>
    /\ exState = "ready"

\* A slip for utils.py:11: the copy left out, the frame working on the list it
\* was given.
SameKeys(value_keys) == [own |-> FALSE, items |-> value_keys]

\* utils.py:11, value_keys = copy(value_keys): the frame's local name is bound
\* to a list of its own, with the same items.
CopyKeys(value_keys) == [own |-> TRUE, items |-> value_keys]

\* utils.py:33-38: the frame reaches value_keys.pop(0), that is, the first
\* segment is a literal key and data[value_key] has been read.
PopReached(data, value_keys) ==
    /\ value_keys # <<>>
    /\ Head(value_keys) # "*"
    /\ KeyIn(Head(value_keys), data) = "yes"
    /\ IsMap(data)

RECURSIVE KeysAfter(_, _)

\* The list given as value_keys once the frame, and the frames it calls with
\* its local list (utils.py:42), have run up to their first yield or raise:
\* pop(0) takes the first item off the list the local name is bound to. The
\* frames called under a wildcard are given a slice, a new list (utils.py:30).
KeysAfter(data, value_keys) ==
    LET local == CopyKeys(value_keys)
    IN  IF ~PopReached(data, value_keys) \/ local.own THEN value_keys
        ELSE IF Len(value_keys) = 1 THEN Tail(value_keys)
        ELSE KeysAfter(data.map[Head(value_keys)], Tail(value_keys))

\* next() on the generator: the next value, or its end, or its exception. The
\* body up to the first yield, the pops of the literal segments included, runs
\* in the first next(). Nothing in the body assigns into data.
ExPull ==
    /\ exState \in {"ready", "running"}
    /\ LET r == recurse_splat_key(exData, exKeys)
           n == Len(exOut)
       IN  IF n < Len(r.vals)
           THEN /\ exOut' = Append(exOut, r.vals[n + 1])
                /\ exState' = "running"
           ELSE /\ exOut' = exOut
                /\ exState' = IF r.err = "none" THEN "done" ELSE r.err
    /\ exKeys' = IF exState = "ready" THEN KeysAfter(exData, exKeys) ELSE exKeys
    /\ UNCHANGED exData
    /\ ExFrame

\* The consumer drops the generator after some values: close() ends it where
\* it stands (GeneratorExit at the yield of utils.py:27, :30, :40 or :42).
ExAbandon ==
    /\ exState = "running"
    /\ exState' = "closed"
    /\ UNCHANGED <<exData, exKeys, exOut>>
    /\ ExFrame

ExNext == ExPull \/ ExAbandon

\* The extractor at rest, for the specifications of the other components.
ExIdle ==
    /\ exData = Num(0)
    /\ exKeys = <<>>
    /\ exOut = <<>>
    /\ exState = "idle"

-----------------------------------------------------------------------------
(* The search engine as get_response_value sees it: a composite aggregation *)
(* named "agg" over pgBuckets buckets, bucket i holding key i. A search     *)
(* returns the buckets after composite.after, at most composite.size of     *)
(* them, with after_key the key of the last one; a page with no bucket      *)
(* carries no after_key.                                                    *)

Bucket(i) == Map([key |-> Num(i), doc_count |-> Num(1)])

CompositeOf(body) == body.map["aggs"].map["agg"].map["composite"].map

PageAfter(body) ==
    IF "after" \in DOMAIN CompositeOf(body) THEN CompositeOf(body)["after"].num ELSE 0

PageSize(body) == CompositeOf(body)["size"].num

PageLast(body, b) ==
    IF PageAfter(body) + PageSize(body) < b THEN PageAfter(body) + PageSize(body) ELSE b

Search(body, b) ==
    LET first == PageAfter(body) + 1
        last == PageLast(body, b)
        page == [i \in 1..(last - first + 1) |-> Bucket(first + i - 1)]
    IN  Map([aggregations |->
            Map([agg |->
                Map(IF page = <<>>
                    THEN [buckets |-> List(page)]
                    ELSE [buckets |-> List(page), after_key |-> Num(last)])])])

\* The query of the tests: a composite aggregation with a page size.
CallerQuery(n) ==
    Map([query |-> Map([match_all |-> Map(<<>>)]),
         aggs |-> Map([agg |-> Map([composite |->
                    Map([size |-> Num(n), sources |-> List(<<>>)])])])])

BucketsPath == <<"aggregations", "agg", "buckets">>

PgPaths ==
    { BucketsPath \o <<"*">>,
      BucketsPath,
      BucketsPath \o <<"*", "key">>,
      BucketsPath \o <<"*", "value">> }

-----------------------------------------------------------------------------
(* get_response_value, a generator: nothing of its body runs before the     *)
(* first pull, and each pull runs it to its next yield, its end or its      *)
(* exception.                                                               *)

\* A slip for elasticsearch.py:196: the deep copy left out, the generator
\* working on the caller's object.
SameQuery(query) == [own |-> FALSE, body |-> query]

\* A slip for elasticsearch.py:196: copy.copy in place of copy.deepcopy; the
\* new dict holds the caller's own "aggs" ... "composite" dict, the one that
\* line 223 updates.
ShallowCopy(query) == [own |-> FALSE, body |-> query]

\* elasticsearch.py:196, query = copy.deepcopy(query): the local name is bound
\* to an object of the generator's own, equal to the caller's at that time.
DeepCopy(query) == [own |-> TRUE, body |-> query]

\* The value of the object the local name `query` is bound to.
Body(local) == IF local.own THEN local.body ELSE pgQuery

\* A slip for elasticsearch.py:218-222: the next page asked for as soon as a
\* value of the page at hand has been handed over.
PageBegun == pgPos >= 1

\* elasticsearch.py:218-222: the for loop over the values of the response at
\* hand has handed over the last of them.
PageUsedUp == pgPos = Len(recurse_splat_key(pgResps[Len(pgResps)], pgKeys).vals)

PgInit ==
    /\ pgBuckets \in 0..MaxBuckets
    /\ pgQuery \in {CallerQuery(n) : n \in 1..MaxPageSize}
    /\ pgKeys \in PgPaths
    /\ pgName \in {"agg", ""}
    /\ pgLocal = DeepCopy(pgQuery)
    /\ pgReqs = <<>>
    /\ pgResps = <<>>
    /\ pgPos = 0
    /\ pgOut = <<>>
    /\ pgState = "ready"

\* A slip for elasticsearch.py:205-210: the missing cursor not looked for.
HasAfterKeyAssumed(resp) == TRUE

\* elasticsearch.py:206 and :222, resp["aggregations"][name]["after_key"].
HasAfterKey(resp) == "after_key" \in DOMAIN resp.map["aggregations"].map[pgName].map

AfterKey(resp) == resp.map["aggregations"].map[pgName].map["after_key"]

\* A slip for elasticsearch.py:222: the cursor read once, at line 206, and
\* never read again.
StaleAfterKey == AfterKey(pgResps[1])

\* elasticsearch.py:222: the cursor of the response at hand.
NextAfterKey == AfterKey(pgResps[Len(pgResps)])

\* A slip for elasticsearch.py:223-225: the update lost.
UpdateNothing(query, after_key) == query

\* elasticsearch.py:223-225: query["aggs"][name]["composite"].update(after=after_key)
UpdateAfter(query, after_key) ==
    LET aggs == query.map["aggs"]
        agg == aggs.map[pgName]
        composite == agg.map["composite"]
    IN  Map([query.map EXCEPT !["aggs"] =
            Map([aggs.map EXCEPT ![pgName] =
                Map([agg.map EXCEPT !["composite"] =
                    Map(("after" :> after_key) @@ composite.map)])])])

\* A slip for elasticsearch.py:213-217: the [[]] case not told apart, so that
\* the empty bucket list is yielded as a value.
PgLoopNoSpecialCase(resp) ==
    LET r == recurse_splat_key(resp, pgKeys)
    IN  IF r.err # "none" THEN /\ pgState' = r.err
                               /\ pgOut' = pgOut
                               /\ pgPos' = 0
        ELSE IF r.vals = <<>>
             THEN /\ pgState' = "done"
                  /\ pgOut' = pgOut
                  /\ pgPos' = 0
             ELSE /\ pgState' = "running"
                  /\ pgOut' = Append(pgOut, r.vals[1])
                  /\ pgPos' = 1

\* elasticsearch.py:212-220, the head of the while loop on response resp:
\* the extraction raises, or is empty or [[]] and the loop ends, or its first
\* value is yielded.
PgLoop(resp) ==
    LET r == recurse_splat_key(resp, pgKeys)
    IN  IF r.err # "none" THEN /\ pgState' = r.err
                               /\ pgOut' = pgOut
                               /\ pgPos' = 0
        ELSE IF r.vals = <<>> \/ r.vals = <<List(<<>>)>>
             THEN /\ pgState' = "done"
                  /\ pgOut' = pgOut
                  /\ pgPos' = 0
             ELSE /\ pgState' = "running"
                  /\ pgOut' = Append(pgOut, r.vals[1])
                  /\ pgPos' = 1

\* A slip for elasticsearch.py:234-237: the list of values yielded as one
\* value.
PgPlainWholeList(resp) ==
    LET r == recurse_splat_key(resp, pgKeys)
    IN  IF r.err # "none" THEN /\ pgState' = r.err
                               /\ pgOut' = pgOut
                               /\ pgPos' = 0
        ELSE IF r.vals = <<>>
             THEN /\ pgState' = "done"
                  /\ pgOut' = pgOut
                  /\ pgPos' = 0
             ELSE /\ pgState' = "running"
                  /\ pgOut' = Append(pgOut, List(r.vals))
                  /\ pgPos' = Len(r.vals)

\* elasticsearch.py:230-237: one response, its values yielded in order.
PgPlain(resp) ==
    LET r == recurse_splat_key(resp, pgKeys)
    IN  IF r.err # "none" THEN /\ pgState' = r.err
                               /\ pgOut' = pgOut
                               /\ pgPos' = 0
        ELSE IF r.vals = <<>>
             THEN /\ pgState' = "done"
                  /\ pgOut' = pgOut
                  /\ pgPos' = 0
             ELSE /\ pgState' = "running"
                  /\ pgOut' = Append(pgOut, r.vals[1])
                  /\ pgPos' = 1

\* The first pull: elasticsearch.py:196-211 (and 230 without a composite name).
PgStart ==
    /\ pgState = "ready"
    /\ LET local == DeepCopy(pgQuery)
           query == Body(local)
           resp == Search(query, pgBuckets)
       IN  /\ pgLocal' = local
           /\ pgReqs' = Append(pgReqs, query)
           /\ pgResps' = Append(pgResps, resp)
           /\ IF pgName = "" THEN PgPlain(resp)
              ELSE IF ~HasAfterKey(resp)
                   THEN /\ pgState' = "KeyError"
                        /\ pgOut' = pgOut
                        /\ pgPos' = 0
                   ELSE PgLoop(resp)
    /\ UNCHANGED <<pgBuckets, pgQuery, pgKeys, pgName>>
    /\ PgFrame

\* A later pull while values of the response at hand remain: the for loop of
\* elasticsearch.py:218-220 (yield from / yield of :235-237).
PgYield ==
    /\ pgState = "running"
    /\ LET r == recurse_splat_key(pgResps[Len(pgResps)], pgKeys)
       IN  /\ pgPos < Len(r.vals)
           /\ pgOut' = Append(pgOut, r.vals[pgPos + 1])
           /\ pgPos' = pgPos + 1
    /\ UNCHANGED <<pgBuckets, pgQuery, pgKeys, pgName, pgLocal, pgReqs, pgResps, pgState>>
    /\ PgFrame

\* A later pull when the response at hand is used up, composite mode:
\* elasticsearch.py:222-226, then the head of the loop again.
PgNextPage ==
    /\ pgState = "running"
    /\ pgName # ""
    /\ PageUsedUp
    /\ IF ~HasAfterKey(pgResps[Len(pgResps)])
       THEN /\ pgState' = "KeyError"
            /\ UNCHANGED <<pgQuery, pgLocal, pgReqs, pgResps, pgOut, pgPos>>
       ELSE LET query == UpdateAfter(Body(pgLocal), NextAfterKey)
                resp == Search(query, pgBuckets)
            IN  /\ IF pgLocal.own
                   THEN /\ pgLocal' = [pgLocal EXCEPT !.body = query]
                        /\ pgQuery' = pgQuery
                   ELSE /\ pgLocal' = pgLocal
                        /\ pgQuery' = query
                /\ pgReqs' = Append(pgReqs, query)
                /\ pgResps' = Append(pgResps, resp)
                /\ PgLoop(resp)
    /\ UNCHANGED <<pgBuckets, pgKeys, pgName>>
    /\ PgFrame

\* A later pull when the single response is used up, plain mode: the
\* generator ends (elasticsearch.py:239-242).
PgPlainEnd ==
    /\ pgState = "running"
    /\ pgName = ""
    /\ pgPos = Len(recurse_splat_key(pgResps[Len(pgResps)], pgKeys).vals)
    /\ pgState' = "done"
    /\ UNCHANGED <<pgBuckets, pgQuery, pgKeys, pgName, pgLocal, pgReqs, pgResps, pgPos, pgOut>>
    /\ PgFrame

PgNext == PgStart \/ PgYield \/ PgNextPage \/ PgPlainEnd

PgIdle ==
    /\ pgBuckets = 0
    /\ pgQuery = Num(0)
    /\ pgKeys = <<>>
    /\ pgName = ""
    /\ pgLocal = Num(0)
    /\ pgReqs = <<>>
    /\ pgResps = <<>>
    /\ pgPos = 0
    /\ pgOut = <<>>
    /\ pgState = "idle"

-----------------------------------------------------------------------------
(* The index as document_exists and doc_gen see it. A document is a        *)
(* function from its field names to values; the engine stores it under an  *)
(* id of its own. A search sees the documents of the last refresh: what was *)
(* stored since is not found yet, what was deleted since still is. An index *)
(* that does not exist (NotFoundError, elasticsearch.py:69) answers as an   *)
(* index without documents.                                                 *)

\* The values of field f in a stored document (an array holds several).
FieldValues(src, f) ==
    IF f \notin DOMAIN src THEN {}
    ELSE IF IsList(src[f]) THEN {src[f].list[i] : i \in 1..Len(src[f].list)}
    ELSE {src[f]}

\* elasticsearch.py:56-60, one filter clause: "terms" (any of the listed
\* values) for a list, "term" otherwise.
ClauseMatches(src, f, value) ==
    IF IsList(value)
    THEN \E i \in 1..Len(value.list) : value.list[i] \in FieldValues(src, f)
    ELSE value \in FieldValues(src, f)

\* elasticsearch.py:54-63: the document has every identity field.
HasEveryField(doc, identity_fields) ==
    \A i \in 1..Len(identity_fields) : identity_fields[i] \in DOMAIN doc

\* elasticsearch.py:65-72: the hits of the bool/filter query.
Hits(docs, doc, identity_fields) ==
    {s \in docs : \A i \in 1..Len(identity_fields) :
        ClauseMatches(s.src, identity_fields[i], doc[identity_fields[i]])}

\* indices.refresh, and the engine's own periodic refresh.
Refreshed(seen, stored) == stored

\* The engine refreshes the index on its own, at any time.
AutoRefresh ==
    /\ searchable # store
    /\ searchable' = Refreshed(searchable, store)
    /\ UNCHANGED <<store, nextId>>
    /\ UNCHANGED gVars
    /\ GateFrame

-----------------------------------------------------------------------------
(* document_exists, one attempt per step (tenacity: up to MaxAttempts      *)
(* attempts, elasticsearch.py:42).                                          *)

MaxAttempts == 5

\* tenacity, retry() without reraise=True (elasticsearch.py:42 and :129): when
\* the last attempt has raised, the caller receives RetryError, which wraps
\* the outcome of that attempt.
RetryOutcome(error) == "RetryError"

\* A slip for elasticsearch.py:83-86: the two return values exchanged.
GateReturnInverted(result) ==
    /\ gPc' = "returned"
    /\ gResult' = ~result
    /\ gAttempt' = gAttempt
    /\ gError' = gError
    /\ gRaised' = gRaised

GateReturn(result) ==
    /\ gPc' = "returned"
    /\ gResult' = result
    /\ gAttempt' = gAttempt
    /\ gError' = gError
    /\ gRaised' = gRaised

\* A slip for elasticsearch.py:42: one attempt more than stop_after_attempt
\* allows.
GateFailOneMore(error) ==
    /\ gResult' = gResult
    /\ gError' = error
    /\ IF gAttempt <= MaxAttempts
       THEN gPc' = "called" /\ gAttempt' = gAttempt + 1 /\ gRaised' = gRaised
       ELSE gPc' = "raised" /\ gAttempt' = gAttempt /\ gRaised' = RetryOutcome(error)

\* The attempt raised, whatever the exception (retry() is given no retry
\* condition): another attempt, or RetryError after the last one.
GateFail(error) ==
    /\ gResult' = gResult
    /\ gError' = error
    /\ IF gAttempt < MaxAttempts
       THEN gPc' = "called" /\ gAttempt' = gAttempt + 1 /\ gRaised' = gRaised
       ELSE gPc' = "raised" /\ gAttempt' = gAttempt /\ gRaised' = RetryOutcome(error)

\* elasticsearch.py:53-63: an identity field is missing, no search is made.
GateMissingField ==
    /\ gPc = "called"
    /\ ~HasEveryField(gDoc, gFields)
    /\ GateReturn(FALSE)
    /\ UNCHANGED <<esVars, gDoc, gFields, gDelete, gHits, gDeleted, gSearches, gLog>>
    /\ GateFrame

\* elasticsearch.py:65-73 and 83-86: the search, without delete_if_exists or
\* without a hit.
GateSearch ==
    /\ gPc = "called"
    /\ HasEveryField(gDoc, gFields)
    /\ LET hits == Hits(searchable, gDoc, gFields)
       IN  /\ hits = {} \/ ~gDelete
           /\ gHits' = {h.id : h \in hits}
           /\ gSearches' = gSearches + 1
           /\ gLog' = Logged(gLog, <<"search">>)
           /\ GateReturn(hits # {})
    /\ UNCHANGED <<esVars, gDoc, gFields, gDelete, gDeleted>>
    /\ GateFrame

\* elasticsearch.py:74-82: hits, with delete_if_exists. The loop over the hits
\* returns from inside its body: the first hit is deleted and no other. A hit
\* that was deleted since the last refresh makes the delete raise
\* NotFoundError, and the attempt fails.
GateSearchDelete ==
    /\ gPc = "called"
    /\ HasEveryField(gDoc, gFields)
    /\ gDelete
    /\ LET hits == Hits(searchable, gDoc, gFields)
       IN  \E hit \in hits :                  \* hits[0], in the engine's order
            /\ gHits' = {h.id : h \in hits}
            /\ gSearches' = gSearches + 1
            /\ gLog' = Logged(gLog, <<"search", "delete">>)
            /\ gDeleted' = Append(gDeleted, hit.id)
            /\ IF hit \in store
               THEN /\ store' = store \ {hit}
                    /\ GateReturn(FALSE)
               ELSE /\ store' = store
                    /\ GateFail("NotFoundError")
    /\ UNCHANGED <<searchable, nextId, gDoc, gFields, gDelete>>
    /\ GateFrame

\* elasticsearch.py:65-70: the search raises a transport error (the cluster
\* unreachable, a timeout), which is no NotFoundError: the attempt fails.
GateTransportError ==
    /\ gPc = "called"
    /\ HasEveryField(gDoc, gFields)
    /\ gSearches' = gSearches + 1
    /\ gLog' = Logged(gLog, <<"search">>)
    /\ GateFail("TransportError")
    /\ UNCHANGED <<esVars, gDoc, gFields, gDelete, gHits, gDeleted>>
    /\ GateFrame

GateAttempt == GateMissingField \/ GateSearch \/ GateSearchDelete \/ GateTransportError

GateIdle ==
    /\ gPc = "idle"
    /\ gDoc = <<>>
    /\ gFields = <<>>
    /\ gDelete = FALSE
    /\ gAttempt = 0
    /\ gResult = FALSE
    /\ gHits = {}
    /\ gDeleted = <<>>
    /\ gSearches = 0
    /\ gLog = <<>>
    /\ gError = "none"
    /\ gRaised = "none"

EsIdle ==
    /\ store = {}
    /\ searchable = {}
    /\ nextId = 1

-----------------------------------------------------------------------------
(* document_exists called on its own, on any index.                        *)

\* Documents: an identity field k, scalar or a list, and a payload v.
Doc(k, v) == [k |-> Num(k), v |-> Num(v)]

\* A document without the identity field.
NoKey == [v |-> Num(0)]

Docs == {Doc(1, 0), Doc(2, 0), NoKey}

GateDocs == Docs \cup {Doc(1, 1), [k |-> List(<<Num(1), Num(2)>>), v |-> Num(0)]}

Stored(src, ids) == {[id |-> i, src |-> src[i]] : i \in ids}

GateInit ==
    /\ \E src \in [1..MaxStored -> GateDocs] :
       \E seen \in SUBSET (1..MaxStored) :
       \E kept \in SUBSET (1..MaxStored) :
            /\ store = Stored(src, kept)
            /\ searchable = Stored(src, seen)
    /\ nextId = MaxStored + 1
    /\ gPc = "called"
    /\ gDoc \in GateDocs
    /\ gFields \in {<<"k">>, <<"k", "v">>}
    /\ gDelete \in BOOLEAN
    /\ gAttempt = 1
    /\ gResult = FALSE
    /\ gHits = {}
    /\ gDeleted = <<>>
    /\ gSearches = 0
    /\ gLog = <<>>
    /\ gError = "none"
    /\ gRaised = "none"

-----------------------------------------------------------------------------
(* index_to_elasticsearch and doc_gen. An optional argument is a sequence   *)
(* of no element (None) or of one. bulk() pulls the documents of doc_gen    *)
(* and sends them in chunks of 500 (the default of elasticsearch.helpers),  *)
(* more than a stream of the model holds: one bulk request per bulk() call, *)
(* sent when doc_gen is exhausted. A caller makes two calls in succession.  *)

\* A slip for utils.py:47: the range stops short of a last, shorter slice.
BatchFullOnly(iterable, n) ==
    [j \in 1..(Len(iterable) \div n) |-> SubSeq(iterable, (j - 1) * n + 1, j * n)]

\* utils.py:45-48
batch(iterable, n) ==
    LET l == Len(iterable)
        min(a, b) == IF a < b THEN a ELSE b
    IN  [j \in 1..((l + n - 1) \div n) |->
            SubSeq(iterable, (j - 1) * n + 1, min(j * n, l))]

\* The stream sent whole whatever batch_size is.
BatchesWhole(args) == <<args.docs>>

\* elasticsearch.py:158-177: one bulk() call for the stream, or one per batch.
Batches(args) ==
    IF args.batch_size = <<>> THEN <<args.docs>>
    ELSE batch(args.docs, args.batch_size[1])

Streams == UNION {[1..n -> Docs] : n \in 0..MaxStream}

IxArgs ==
    {a \in [docs : Streams,
            identity_fields : {<<>>, << <<"k">> >>},
            overwrite : BOOLEAN,
            batch_size : {<<>>} \cup {<<n>> : n \in 1..MaxBatch}] :
        a.identity_fields = <<>> => ~a.overwrite}

IxInit ==
    /\ ixPc = "idle"
    /\ ixArgs = <<>>
    /\ ixAttempt = 0
    /\ ixBatches = <<>>
    /\ ixPos = 0
    /\ ixPending = <<>>
    /\ ixBefore = {}
    /\ ixCalls = <<>>
    /\ ixTemplate = "none"
    /\ ixTemplated = 0
    /\ ixError = "none"
    /\ ixLog = <<>>
    /\ ixStream = [oneshot |-> FALSE, left |-> <<>>]
    /\ ixSeen = 0

\* The kinds of the argument index_template (elasticsearch.py:143-152): None,
\* a dict, a str or Path naming a readable JSON file, and a value of another
\* type.
Templates == {"none", "dict", "path", "number"}

\* An attempt that goes to the documents at once, template or not.
AttemptStartBulk(template) == "bulk"

\* Where an attempt begins: elasticsearch.py:143, `if index_template is not None`.
AttemptStart(template) == IF template = "none" THEN "bulk" ELSE "template"

\* The argument docs: a list, which gives its documents anew each time it is
\* iterated, or an iterator (a generator), which gives each document once.
Stream(docs, oneshot) == [oneshot |-> oneshot, left |-> docs]

\* The documents an iteration of docs gives: elasticsearch.py:106, utils.py:46.
Remaining(args, stream) == IF stream.oneshot THEN stream.left ELSE args.docs

\* elasticsearch.py:106, `for doc in docs` takes a document: an iterator has
\* it no more.
Taken(stream) ==
    IF stream.oneshot THEN [stream EXCEPT !.left = Tail(@)] ELSE stream

\* utils.py:46, len(iterable): an iterator has no len(), batch() raises
\* TypeError when its first slice is asked for (elasticsearch.py:166).
BatchRaises(args, stream) == args.batch_size # <<>> /\ stream.oneshot

\* elasticsearch.py:158-177: the bulk() calls of an attempt, one per slice of
\* what docs gives.
AttemptBatches(args, stream) ==
    IF BatchRaises(args, stream) THEN <<>>
    ELSE Batches([args EXCEPT !.docs = Remaining(args, stream)])

\* The call, after at most `calls` earlier ones, with an index_template of one
\* of the kinds `templates` and docs a list or, for TRUE in `oneshots`, an
\* iterator: elasticsearch.py:130-142.
IxCallOf(templates, calls, oneshots) ==
    /\ ixPc = "idle"
    /\ Len(ixCalls) < calls
    /\ \E args \in IxArgs, oneshot \in oneshots :
        /\ ixArgs' = args
        /\ ixStream' = Stream(args.docs, oneshot)
        /\ ixBatches' = AttemptBatches(args, Stream(args.docs, oneshot))
    /\ \E template \in templates :
        /\ ixTemplate' = template
        /\ ixPc' = AttemptStart(template)
    /\ ixAttempt' = 1
    /\ ixBefore' = store
    /\ ixTemplated' = 0
    /\ ixError' = "none"
    /\ ixLog' = <<>>
    /\ ixSeen' = 0
    /\ UNCHANGED <<ixPos, ixPending, ixCalls>>
    /\ UNCHANGED <<esVars, gVars>>
    /\ IxFrame

\* A caller that gives no index_template, and makes two calls in succession.
IxCall == IxCallOf({"none"}, 2, {FALSE})

\* A caller that makes one call, with any index_template.
IxCallTemplate == IxCallOf(Templates, 1, {FALSE})

\* A caller that makes one call, without index_template, with docs a list or
\* an iterator.
IxCallStream == IxCallOf({"none"}, 1, BOOLEAN)

\* elasticsearch.py:150-152: index_template is neither a str, a Path nor a
\* dict; ValueError is raised inside the retried function.
IxTemplateInvalid ==
    /\ ixPc = "template"
    /\ ixTemplate \notin {"dict", "path"}
    /\ ixError' = "ValueError"
    /\ ixPc' = "failed"
    /\ UNCHANGED <<esVars, gVars, ixArgs, ixAttempt, ixBatches, ixPos, ixPending, ixBefore,
                   ixCalls, ixTemplate, ixTemplated, ixLog, ixStream, ixSeen>>
    /\ IxFrame

\* elasticsearch.py:144-149 and 154-156: the template body is read and
\* registered under the index name.
IxPutTemplate ==
    /\ ixPc = "template"
    /\ ixTemplate \in {"dict", "path"}
    /\ ixTemplated' = ixTemplated + 1
    /\ ixLog' = Logged(ixLog, <<"put_template">>)
    /\ ixPc' = "bulk"
    /\ UNCHANGED <<esVars, gVars, ixArgs, ixAttempt, ixBatches, ixPos, ixPending, ixBefore,
                   ixCalls, ixTemplate, ixError, ixStream, ixSeen>>
    /\ IxFrame

\* elasticsearch.py:155: put_template raises a transport error.
IxPutTemplateError ==
    /\ ixPc = "template"
    /\ ixTemplate \in {"dict", "path"}
    /\ ixTemplated' = ixTemplated + 1
    /\ ixLog' = Logged(ixLog, <<"put_template">>)
    /\ ixError' = "TransportError"
    /\ ixPc' = "failed"
    /\ UNCHANGED <<esVars, gVars, ixArgs, ixAttempt, ixBatches, ixPos, ixPending, ixBefore,
                   ixCalls, ixTemplate, ixStream, ixSeen>>
    /\ IxFrame

\* A slip for elasticsearch.py:102: doc_gen without the refresh.
DocGenNoRefresh(seen, stored, identity_fields) == seen

\* elasticsearch.py:100-102: doc_gen refreshes the index when identity fields are given.
DocGenRefresh(seen, stored, identity_fields) ==
    IF identity_fields # <<>> THEN Refreshed(seen, stored) ELSE seen

\* elasticsearch.py:159-177 and 100-102: bulk() is called and asks doc_gen
\* for its first document; doc_gen begins with the refresh when identity
\* fields are given.
DocGenCalls(identity_fields) ==
    IF identity_fields # <<>> THEN <<"bulk", "refresh">> ELSE <<"bulk">>

\* bulk() starts pulling doc_gen for the batch at hand: elasticsearch.py:100-105.
IxDocGen ==
    /\ ixPc = "bulk"
    /\ ixBatches # <<>>
    /\ searchable' = DocGenRefresh(searchable, store, ixArgs.identity_fields)
    /\ ixPos' = 1
    /\ ixPending' = <<>>
    /\ ixPc' = "doc"
    /\ UNCHANGED <<store, nextId, gVars, ixArgs, ixAttempt, ixBatches, ixBefore, ixCalls>>
    /\ ixLog' = Logged(ixLog, DocGenCalls(ixArgs.identity_fields))
    /\ UNCHANGED <<ixTemplate, ixTemplated, ixError, ixStream, ixSeen>>
    /\ IxFrame

\* elasticsearch.py:106-121 without identity fields: the document is yielded.
IxAdmit ==
    /\ ixPc = "doc"
    /\ ixPos <= Len(ixBatches[1])
    /\ ixArgs.identity_fields = <<>>
    /\ ixPending' = Append(ixPending, ixBatches[1][ixPos])
    /\ ixPos' = ixPos + 1
    /\ UNCHANGED <<esVars, gVars, ixPc, ixArgs, ixAttempt, ixBatches, ixBefore, ixCalls>>
    /\ ixStream' = Taken(ixStream)
    /\ ixSeen' = ixSeen + 1
    /\ UNCHANGED <<ixTemplate, ixTemplated, ixError, ixLog>>
    /\ IxFrame

\* elasticsearch.py:110-116: doc_gen calls document_exists on the document.
IxGateCall ==
    /\ ixPc = "doc"
    /\ ixPos <= Len(ixBatches[1])
    /\ ixArgs.identity_fields # <<>>
    /\ gPc' = "called"
    /\ gDoc' = ixBatches[1][ixPos]
    /\ gFields' = ixArgs.identity_fields[1]
    /\ gDelete' = ixArgs.overwrite
    /\ gAttempt' = 1
    /\ gResult' = FALSE
    /\ gHits' = {}
    /\ gDeleted' = <<>>
    /\ gSearches' = 0
    /\ gLog' = <<>>
    /\ gError' = "none"
    /\ gRaised' = "none"
    /\ ixPc' = "gate"
    /\ UNCHANGED <<esVars, ixArgs, ixAttempt, ixBatches, ixPos, ixPending, ixBefore, ixCalls>>
    /\ ixStream' = Taken(ixStream)
    /\ ixSeen' = ixSeen + 1
    /\ UNCHANGED <<ixTemplate, ixTemplated, ixError, ixLog>>
    /\ IxFrame

\* elasticsearch.py:110-121: document_exists has returned; the document is
\* skipped when it exists and yielded otherwise.
IxGateReturned ==
    /\ ixPc = "gate"
    /\ gPc = "returned"
    /\ gPc' = "idle"
    /\ ixPending' = IF gResult THEN ixPending ELSE Append(ixPending, gDoc)
    /\ ixPos' = ixPos + 1
    /\ ixPc' = "doc"
    /\ UNCHANGED <<esVars, gDoc, gFields, gDelete, gAttempt, gResult, gHits, gDeleted, gSearches, gLog,
                   gError, gRaised>>
    /\ UNCHANGED <<ixArgs, ixAttempt, ixBatches, ixBefore, ixCalls>>
    /\ ixLog' = ixLog \o gLog
    /\ UNCHANGED <<ixTemplate, ixTemplated, ixError, ixStream, ixSeen>>
    /\ IxFrame

\* document_exists has raised (RetryError): the error leaves doc_gen and
\* bulk(), the documents yielded so far are not sent, the attempt fails.
IxGateRaised ==
    /\ ixPc = "gate"
    /\ gPc = "raised"
    /\ gPc' = "idle"
    /\ ixPending' = <<>>
    /\ ixError' = gRaised
    /\ ixPc' = "failed"
    /\ ixLog' = ixLog \o gLog
    /\ UNCHANGED <<ixTemplate, ixTemplated, ixStream, ixSeen>>
    /\ UNCHANGED <<esVars, gDoc, gFields, gDelete, gAttempt, gResult, gHits, gDeleted, gSearches, gLog,
                   gError, gRaised>>
    /\ UNCHANGED <<ixArgs, ixAttempt, ixBatches, ixPos, ixBefore, ixCalls>>
    /\ IxFrame

\* The documents a bulk request stores, under fresh ids.
Written(pending, first) ==
    {[id |-> first + i - 1, src |-> pending[i]] : i \in 1..Len(pending)}

\* doc_gen is exhausted (elasticsearch.py:122-126): bulk() sends what it
\* yielded and returns; the next batch, if any, follows.
IxBulkSend ==
    /\ ixPc = "doc"
    /\ ixPos > Len(ixBatches[1])
    /\ store' = store \cup Written(ixPending, nextId)
    /\ nextId' = nextId + Len(ixPending)
    /\ ixPending' = <<>>
    /\ ixBatches' = Tail(ixBatches)
    /\ ixPc' = "bulk"
    /\ UNCHANGED <<searchable, gVars, ixArgs, ixAttempt, ixPos, ixBefore, ixCalls>>
    /\ UNCHANGED <<ixTemplate, ixTemplated, ixError, ixLog, ixStream, ixSeen>>
    /\ IxFrame

\* elasticsearch.py:102: the refresh of doc_gen raises a transport error; it
\* leaves doc_gen and bulk(), and the attempt fails.
IxRefreshError ==
    /\ ixPc = "bulk"
    /\ ixBatches # <<>>
    /\ ixArgs.identity_fields # <<>>
    /\ ixError' = "TransportError"
    /\ ixLog' = Logged(ixLog, DocGenCalls(ixArgs.identity_fields))
    /\ ixPc' = "failed"
    /\ UNCHANGED <<esVars, gVars, ixArgs, ixAttempt, ixBatches, ixPos, ixPending, ixBefore,
                   ixCalls, ixTemplate, ixTemplated, ixStream, ixSeen>>
    /\ IxFrame

\* elasticsearch.py:166 and utils.py:46: docs is an iterator and batch_size is
\* given; batch() raises TypeError before any bulk() call.
IxBatchTypeError ==
    /\ ixPc = "bulk"
    /\ BatchRaises(ixArgs, ixStream)
    /\ ixError' = "TypeError"
    /\ ixPc' = "failed"
    /\ UNCHANGED <<esVars, gVars, ixArgs, ixAttempt, ixBatches, ixPos, ixPending, ixBefore,
                   ixCalls, ixTemplate, ixTemplated, ixLog, ixStream, ixSeen>>
    /\ IxFrame

\* elasticsearch.py:159 and :167: the bulk request raises a transport error
\* and stores nothing.
IxBulkError ==
    /\ ixPc = "doc"
    /\ ixPos > Len(ixBatches[1])
    /\ ixPending' = <<>>
    /\ ixError' = "TransportError"
    /\ ixPc' = "failed"
    /\ UNCHANGED <<esVars, gVars, ixArgs, ixAttempt, ixBatches, ixPos, ixBefore,
                   ixCalls, ixTemplate, ixTemplated, ixLog, ixStream, ixSeen>>
    /\ IxFrame

Ended(outcome) == [args |-> ixArgs, before |-> ixBefore, outcome |-> outcome]

\* elasticsearch.py:178-179: every bulk() has returned, the call returns.
IxReturn ==
    /\ ixPc = "bulk"
    /\ ixBatches = <<>>
    /\ ~BatchRaises(ixArgs, ixStream)
    /\ ixCalls' = Append(ixCalls, Ended("returned"))
    /\ ixPc' = "idle"
    /\ UNCHANGED <<esVars, gVars, ixArgs, ixAttempt, ixBatches, ixPos, ixPending, ixBefore>>
    /\ UNCHANGED <<ixTemplate, ixTemplated, ixError, ixLog, ixStream, ixSeen>>
    /\ IxFrame

\* elasticsearch.py:129: the attempt raised; the whole call is attempted
\* again from its first line, or RetryError is raised after the last attempt.
IxRetry ==
    /\ ixPc = "failed"
    /\ IF ixAttempt < MaxAttempts
       THEN /\ ixAttempt' = ixAttempt + 1
            /\ ixBatches' = AttemptBatches(ixArgs, ixStream)
            /\ ixLog' = <<>>
            /\ ixSeen' = 0
            /\ ixPc' = AttemptStart(ixTemplate)
            /\ ixCalls' = ixCalls
       ELSE /\ ixAttempt' = ixAttempt
            /\ ixBatches' = ixBatches
            /\ ixLog' = ixLog
            /\ ixSeen' = ixSeen
            /\ ixPc' = "idle"
            /\ ixCalls' = Append(ixCalls, Ended(RetryOutcome(ixError)))
    /\ UNCHANGED <<esVars, gVars, ixArgs, ixPos, ixPending, ixBefore>>
    /\ UNCHANGED <<ixTemplate, ixTemplated, ixError, ixStream>>
    /\ IxFrame

-----------------------------------------------------------------------------
(* Two get_response_value generators in composite mode, made from the same  *)
(* query object (pgQuery) against the same data (pgBuckets) and pulled in   *)
(* any order by their consumers.                                            *)

Inst == {1, 2}

\* elasticsearch.py:212-220 for generator i, as PgLoop.
TwLoop(i, resp) ==
    LET r == recurse_splat_key(resp, twKeys[i])
    IN  IF r.err # "none" THEN /\ twState' = [twState EXCEPT ![i] = r.err]
                               /\ twOut' = twOut
                               /\ twPos' = [twPos EXCEPT ![i] = 0]
        ELSE IF r.vals = <<>> \/ r.vals = <<List(<<>>)>>
             THEN /\ twState' = [twState EXCEPT ![i] = "done"]
                  /\ twOut' = twOut
                  /\ twPos' = [twPos EXCEPT ![i] = 0]
             ELSE /\ twState' = [twState EXCEPT ![i] = "running"]
                  /\ twOut' = [twOut EXCEPT ![i] = Append(@, r.vals[1])]
                  /\ twPos' = [twPos EXCEPT ![i] = 1]

\* The first pull of generator i: elasticsearch.py:196-211.
TwStartOf(i) ==
    /\ twState[i] = "ready"
    /\ LET local == DeepCopy(pgQuery)
           resp == Search(Body(local), pgBuckets)
       IN  /\ twLocal' = [twLocal EXCEPT ![i] = local]
           /\ twReqs' = [twReqs EXCEPT ![i] = Append(@, Body(local))]
           /\ twResps' = [twResps EXCEPT ![i] = Append(@, resp)]
           /\ IF ~HasAfterKey(resp)
              THEN /\ twState' = [twState EXCEPT ![i] = "KeyError"]
                   /\ twOut' = twOut
                   /\ twPos' = twPos
              ELSE TwLoop(i, resp)
    /\ UNCHANGED <<twKeys, pgQuery>>
    /\ TwFrame

\* A later pull of generator i while values of its response remain:
\* elasticsearch.py:218-220.
TwYieldOf(i) ==
    /\ twState[i] = "running"
    /\ LET r == recurse_splat_key(twResps[i][Len(twResps[i])], twKeys[i])
       IN  /\ twPos[i] < Len(r.vals)
           /\ twOut' = [twOut EXCEPT ![i] = Append(@, r.vals[twPos[i] + 1])]
           /\ twPos' = [twPos EXCEPT ![i] = @ + 1]
    /\ UNCHANGED <<twKeys, twLocal, twReqs, twResps, twState, pgQuery>>
    /\ TwFrame

\* A later pull of generator i when its response is used up:
\* elasticsearch.py:222-226, the update made on the object `query` is bound
\* to, then the head of the loop again.
TwNextPageOf(i) ==
    /\ twState[i] = "running"
    /\ LET last == twResps[i][Len(twResps[i])]
       IN  /\ twPos[i] = Len(recurse_splat_key(last, twKeys[i]).vals)
           /\ IF ~HasAfterKey(last)
              THEN /\ twState' = [twState EXCEPT ![i] = "KeyError"]
                   /\ UNCHANGED <<twLocal, twReqs, twResps, twOut, twPos, pgQuery>>
              ELSE LET query == UpdateAfter(Body(twLocal[i]), AfterKey(last))
                       resp == Search(query, pgBuckets)
                   IN  /\ IF twLocal[i].own
                          THEN /\ twLocal' = [twLocal EXCEPT ![i].body = query]
                               /\ pgQuery' = pgQuery
                          ELSE /\ twLocal' = twLocal
                               /\ pgQuery' = query
                       /\ twReqs' = [twReqs EXCEPT ![i] = Append(@, query)]
                       /\ twResps' = [twResps EXCEPT ![i] = Append(@, resp)]
                       /\ TwLoop(i, resp)
    /\ UNCHANGED twKeys
    /\ TwFrame

TwStart == \E i \in Inst : TwStartOf(i)

TwYield == \E i \in Inst : TwYieldOf(i)

TwNextPage == \E i \in Inst : TwNextPageOf(i)

TwInit ==
    /\ pgBuckets \in 0..MaxBuckets
    /\ pgQuery \in {CallerQuery(n) : n \in 1..MaxPageSize}
    /\ pgName = "agg"
    /\ pgKeys = <<>>
    /\ pgLocal = Num(0)
    /\ pgReqs = <<>>
    /\ pgResps = <<>>
    /\ pgPos = 0
    /\ pgOut = <<>>
    /\ pgState = "idle"
    /\ twKeys \in [Inst -> PgPaths]
    /\ twLocal = [i \in Inst |-> DeepCopy(Num(0))]
    /\ twReqs = [i \in Inst |-> <<>>]
    /\ twResps = [i \in Inst |-> <<>>]
    /\ twPos = [i \in Inst |-> 0]
    /\ twOut = [i \in Inst |-> <<>>]
    /\ twState = [i \in Inst |-> "ready"]

TwIdle ==
    /\ twKeys = <<>>
    /\ twLocal = <<>>
    /\ twReqs = <<>>
    /\ twResps = <<>>
    /\ twPos = <<>>
    /\ twOut = <<>>
    /\ twState = <<>>

-----------------------------------------------------------------------------
(* check_elasticsearch, called by a caller up to MaxChecks times on a       *)
(* cluster whose status and reachability change on their own.               *)

MaxChecks == 2

Statuses == {"green", "yellow", "red"}

\* The cluster answers, or the connection fails (ConnectionError), or the
\* cluster answers with an error that is no connection error (TransportError).
Links == {"up", "down", "error"}

\* A slip for elasticsearch.py:34: every status but green refused.
StatusOutcomeGreenOnly(status) ==
    IF status # "green" THEN "ElasticsearchNotReadyError" ELSE "returned"

\* elasticsearch.py:34-35
StatusOutcome(status) ==
    IF status = "red" THEN "ElasticsearchNotReadyError" ELSE "returned"

\* elasticsearch.py:36-39: a ConnectionError raised inside the try block
\* becomes ElasticsearchUnreachableError; any other exception leaves as it is.
Caught(error) ==
    IF error = "ConnectionError" THEN "ElasticsearchUnreachableError" ELSE error

LinkError == IF hLink = "down" THEN "ConnectionError" ELSE "TransportError"

\* elasticsearch.py:19-28
HCall ==
    /\ hPc = "idle"
    /\ hChecks < MaxChecks
    /\ hChecks' = hChecks + 1
    /\ hHealth' = "none"
    /\ hInfo' = "none"
    /\ hOutcome' = "none"
    /\ hPc' = "health"
    /\ UNCHANGED <<hStatus, hLink, hRequests>>
    /\ HFrame

\* elasticsearch.py:29: cluster.health() answers.
HHealth ==
    /\ hPc = "health"
    /\ hLink = "up"
    /\ hRequests' = hRequests + 1
    /\ hHealth' = hStatus
    /\ hPc' = "info"
    /\ UNCHANGED <<hStatus, hLink, hInfo, hOutcome, hChecks>>
    /\ HFrame

\* elasticsearch.py:29 and 36-39: cluster.health() raises.
HHealthRaises ==
    /\ hPc = "health"
    /\ hLink # "up"
    /\ hRequests' = hRequests + 1
    /\ hHealth' = LinkError
    /\ hOutcome' = Caught(LinkError)
    /\ hPc' = "idle"
    /\ UNCHANGED <<hStatus, hLink, hInfo, hChecks>>
    /\ HFrame

\* elasticsearch.py:30-35: info() answers, the line is logged, the status
\* read at line 29 is looked at.
HInfo ==
    /\ hPc = "info"
    /\ hLink = "up"
    /\ hInfo' = "ok"
    /\ hOutcome' = StatusOutcome(hHealth)
    /\ hPc' = "idle"
    /\ UNCHANGED <<hStatus, hLink, hHealth, hChecks, hRequests>>
    /\ HFrame

\* elasticsearch.py:30 and 36-39: info() raises.
HInfoRaises ==
    /\ hPc = "info"
    /\ hLink # "up"
    /\ hInfo' = LinkError
    /\ hOutcome' = Caught(LinkError)
    /\ hPc' = "idle"
    /\ UNCHANGED <<hStatus, hLink, hHealth, hChecks, hRequests>>
    /\ HFrame

\* The cluster's status changes.
HStatusChange ==
    /\ hStatus' \in Statuses \ {hStatus}
    /\ UNCHANGED <<hLink, hPc, hHealth, hInfo, hOutcome, hChecks, hRequests>>
    /\ HFrame

\* The cluster becomes unreachable, or reachable, or starts refusing.
HLinkChange ==
    /\ hLink' \in Links \ {hLink}
    /\ UNCHANGED <<hStatus, hPc, hHealth, hInfo, hOutcome, hChecks, hRequests>>
    /\ HFrame

HInit ==
    /\ hStatus \in Statuses
    /\ hLink \in Links
    /\ hPc = "idle"
    /\ hHealth = "none"
    /\ hInfo = "none"
    /\ hOutcome = "none"
    /\ hChecks = 0
    /\ hRequests = 0

HIdle ==
    /\ hStatus = "green"
    /\ hLink = "up"
    /\ hPc = "idle"
    /\ hHealth = "none"
    /\ hInfo = "none"
    /\ hOutcome = "none"
    /\ hChecks = 0
    /\ hRequests = 0

-----------------------------------------------------------------------------
(* The specifications, one per component.                                  *)

InitIndex == IxInit /\ EsIdle /\ GateIdle /\ ExIdle /\ PgIdle /\ TwIdle /\ HIdle /\ recording = FALSE

NextIndex ==
    \/ IxCall
    \/ IxDocGen
    \/ IxAdmit
    \/ IxGateCall
    \/ GateMissingField
    \/ GateSearch
    \/ GateSearchDelete
    \/ IxGateReturned
    \/ IxGateRaised
    \/ IxBulkSend
    \/ IxReturn
    \/ IxRetry
    \/ AutoRefresh

SpecIndex == InitIndex /\ [][NextIndex]_vars

\* One call of index_to_elasticsearch with any index_template, on a cluster
\* whose requests can fail with a transport error.
InitRetry == IxInit /\ EsIdle /\ GateIdle /\ ExIdle /\ PgIdle /\ TwIdle /\ HIdle /\ recording = FALSE

NextRetry ==
    \/ IxCallTemplate
    \/ IxTemplateInvalid
    \/ IxPutTemplate
    \/ IxPutTemplateError
    \/ IxDocGen
    \/ IxRefreshError
    \/ IxAdmit
    \/ IxGateCall
    \/ GateMissingField
    \/ GateSearch
    \/ GateSearchDelete
    \/ GateTransportError
    \/ IxGateReturned
    \/ IxGateRaised
    \/ IxBulkSend
    \/ IxBulkError
    \/ IxReturn
    \/ IxRetry
    \/ AutoRefresh

SpecRetry == InitRetry /\ [][NextRetry]_vars

\* One call of index_to_elasticsearch with docs a list or an iterator, on a
\* cluster whose requests can fail with a transport error.
InitStream == IxInit /\ EsIdle /\ GateIdle /\ ExIdle /\ PgIdle /\ TwIdle /\ HIdle /\ recording = FALSE

NextStream ==
    \/ IxCallStream
    \/ IxBatchTypeError
    \/ IxDocGen
    \/ IxRefreshError
    \/ IxAdmit
    \/ IxGateCall
    \/ GateMissingField
    \/ GateSearch
    \/ GateSearchDelete
    \/ GateTransportError
    \/ IxGateReturned
    \/ IxGateRaised
    \/ IxBulkSend
    \/ IxBulkError
    \/ IxReturn
    \/ IxRetry
    \/ AutoRefresh

SpecStream == InitStream /\ [][NextStream]_vars

\* One call of index_to_elasticsearch with any index_template through a
\* recording client, on a cluster whose put_template, refresh, delete and bulk
\* requests can fail and whose searches are answered (so that document_exists
\* retries after a failed delete and always returns).
InitOrder == IxInit /\ EsIdle /\ GateIdle /\ ExIdle /\ PgIdle /\ TwIdle /\ HIdle /\ recording = TRUE

NextOrder ==
    \/ IxCallTemplate
    \/ IxTemplateInvalid
    \/ IxPutTemplate
    \/ IxPutTemplateError
    \/ IxDocGen
    \/ IxRefreshError
    \/ IxAdmit
    \/ IxGateCall
    \/ GateMissingField
    \/ GateSearch
    \/ GateSearchDelete
    \/ IxGateReturned
    \/ IxBulkSend
    \/ IxBulkError
    \/ IxReturn
    \/ IxRetry
    \/ AutoRefresh

SpecOrder == InitOrder /\ [][NextOrder]_vars

InitGate == GateInit /\ IxInit /\ ExIdle /\ PgIdle /\ TwIdle /\ HIdle /\ recording = FALSE

NextGate == GateAttempt \/ AutoRefresh

SpecGate == InitGate /\ [][NextGate]_vars

InitExtract == ExInit /\ PgIdle /\ EsIdle /\ GateIdle /\ IxInit /\ TwIdle /\ HIdle /\ recording = FALSE

NextExtract == ExNext

SpecExtract == InitExtract /\ [][NextExtract]_vars

InitPaginate == PgInit /\ ExIdle /\ EsIdle /\ GateIdle /\ IxInit /\ TwIdle /\ HIdle /\ recording = FALSE

NextPaginate == PgNext

SpecPaginate == InitPaginate /\ [][NextPaginate]_vars

InitTwo == TwInit /\ ExIdle /\ EsIdle /\ GateIdle /\ IxInit /\ HIdle /\ recording = FALSE

NextTwo == TwStart \/ TwYield \/ TwNextPage

SpecTwo == InitTwo /\ [][NextTwo]_vars

InitHealth == HInit /\ ExIdle /\ PgIdle /\ EsIdle /\ GateIdle /\ IxInit /\ TwIdle /\ recording = FALSE

NextHealth ==
    \/ HCall
    \/ HHealth
    \/ HHealthRaises
    \/ HInfo
    \/ HInfoRaises
    \/ HStatusChange
    \/ HLinkChange

SpecHealth == InitHealth /\ [][NextHealth]_vars

-----------------------------------------------------------------------------
(* What the claims about the extractor speak of.                           *)

AllLiteral(path) == \A i \in 1..Len(path) : path[i] # "*"

\* The position of the first wildcard of a path, 0 when it has none.
FirstWildcard(path) ==
    IF AllLiteral(path) THEN 0
    ELSE CHOOSE i \in 1..Len(path) :
            path[i] = "*" /\ \A j \in 1..(i - 1) : path[j] # "*"

LiteralPrefix(path) ==
    IF FirstWildcard(path) = 0 THEN path ELSE SubSeq(path, 1, FirstWildcard(path) - 1)

AfterWildcard(path) ==
    IF FirstWildcard(path) = 0 THEN <<>>
    ELSE SubSeq(path, FirstWildcard(path) + 1, Len(path))

\* The node a sequence of literal keys leads to through maps that hold them:
\* <<node>>, or <<>> when some key is missing at the node reached.
RECURSIVE Descend(_, _)
Descend(d, lits) ==
    IF lits = <<>> THEN <<d>>
    ELSE IF IsMap(d) /\ Head(lits) \in DOMAIN d.map
         THEN Descend(d.map[Head(lits)], Tail(lits))
         ELSE <<>>

IsPrefix(s, t) == Len(s) <= Len(t) /\ SubSeq(t, 1, Len(s)) = s

ExPulled == exState # "ready"

ExEnded == exState \notin {"ready", "running"}

\* C6: a path of literal keys only, on a tree in which some key of the path
\* is missing at the node reached, fails with RecursedToKeyError at the first
\* pull and yields no value.
C6_MissingKeyRaisesKeyNotFound ==
    (AllLiteral(exKeys) /\ Descend(exData, exKeys) = <<>> /\ ExPulled)
        => (exState = "RecursedToKeyError" /\ exOut = <<>>)

\* C7: a wildcard applied to a node that is not a sequence, a map or a
\* scalar alike, fails with AsteriskNotAtListError.
C7_WildcardOnNonSequenceRaises ==
    (/\ FirstWildcard(exKeys) > 0
     /\ Descend(exData, LiteralPrefix(exKeys)) # <<>>
     /\ ~IsList(Descend(exData, LiteralPrefix(exKeys))[1])
     /\ ExPulled)
        => (exState = "AsteriskNotAtListError" /\ exOut = <<>>)

\* The path ends in its only wildcard and the literal keys before it lead to
\* a list.
C8_Case ==
    /\ FirstWildcard(exKeys) = Len(exKeys)
    /\ Descend(exData, LiteralPrefix(exKeys)) # <<>>
    /\ IsList(Descend(exData, LiteralPrefix(exKeys))[1])

C8_List == Descend(exData, LiteralPrefix(exKeys))[1].list

\* C8: a path whose last segment is a wildcard, over a list of N elements,
\* yields exactly those N elements as they are and in input order, and ends
\* normally (N = 0: an empty sequence, not an error).
C8_TerminalWildcardYieldsElements ==
    C8_Case =>
        /\ exState \in {"ready", "running", "done", "closed"}
        /\ IsPrefix(exOut, C8_List)
        /\ (exState = "running" => exOut # <<>>)
        /\ (exState = "done" => exOut = C8_List)

C8_Witness ==
    /\ C8_Case
    /\ Len(exKeys) = 2
    /\ exState = "done"
    /\ Len(exOut) = 2
    /\ exOut[1] # exOut[2]

\* The first wildcard is not the last segment, the literal keys before it lead
\* to a list, and the rest of the path runs to its end on every element.
C9_Case ==
    /\ FirstWildcard(exKeys) \in 1..(Len(exKeys) - 1)
    /\ Descend(exData, LiteralPrefix(exKeys)) # <<>>
    /\ IsList(Descend(exData, LiteralPrefix(exKeys))[1])
    /\ \A i \in 1..Len(Descend(exData, LiteralPrefix(exKeys))[1].list) :
          recurse_splat_key(Descend(exData, LiteralPrefix(exKeys))[1].list[i],
                            AfterWildcard(exKeys)).err = "none"

\* The values of elements i.. of the list under the rest of the path, one
\* element after the other.
RECURSIVE C9_Flat(_, _, _)
C9_Flat(elems, rest, i) ==
    IF i > Len(elems) THEN <<>>
    ELSE recurse_splat_key(elems[i], rest).vals \o C9_Flat(elems, rest, i + 1)

C9_Expected ==
    C9_Flat(Descend(exData, LiteralPrefix(exKeys))[1].list, AfterWildcard(exKeys), 1)

\* C9: a non-terminal wildcard over K elements, the rest of the path yielding
\* Mi values on element i, yields the sum(Mi) values: those of element 1 in
\* their inner order, then those of element 2, and so on, flat.
C9_NonTerminalWildcardFlattens ==
    C9_Case =>
        /\ exState \in {"ready", "running", "done", "closed"}
        /\ IsPrefix(exOut, C9_Expected)
        /\ (exState = "running" => exOut # <<>>)
        /\ (exState = "done" => exOut = C9_Expected)

\* Two elements contributing 2 and 1 values (a wildcard under the wildcard).
C9_Witness ==
    /\ C9_Case
    /\ exKeys = <<"*", "*">>
    /\ exState = "done"
    /\ Len(exData.list) = 2
    /\ Len(exData.list[1].list) = 2
    /\ Len(exData.list[2].list) = 1
    /\ Len(exOut) = 3
    /\ exOut[1] # exOut[2]

-----------------------------------------------------------------------------
(* What the claims about composite pagination speak of.                    *)

AllBuckets == [i \in 1..pgBuckets |-> Bucket(i)]

\* ceil(pgBuckets / page_size)
PageCount ==
    LET n == pgQuery.map["aggs"].map["agg"].map["composite"].map["size"].num
    IN  (pgBuckets + n - 1) \div n

BucketsOf(resp) == resp.map["aggregations"].map["agg"].map["buckets"].list

C1_Case ==
    /\ pgName = "agg"
    /\ pgKeys = BucketsPath \o <<"*">>
    /\ pgBuckets >= 1

\* C1: composite mode, a path ending in a wildcard over the bucket list, B >= 1
\* buckets served in pages of at most page_size: the consumer receives the B
\* buckets, each once and in server order, and the generator then ends; the
\* only response with no bucket is the last one, after which no search is sent
\* (ceil(B / page_size) + 1 searches in all).
C1_CompositeYieldsEveryBucketOnce ==
    C1_Case =>
        /\ pgState \in {"ready", "running", "done"}
        /\ IsPrefix(pgOut, AllBuckets)
        /\ (pgState = "running" => pgOut # <<>>)
        /\ \A i \in 1..(Len(pgResps) - 1) : BucketsOf(pgResps[i]) # <<>>
        /\ (pgResps # <<>> /\ BucketsOf(pgResps[Len(pgResps)]) = <<>> => pgState = "done")
        /\ Len(pgReqs) <= PageCount + 1
        /\ (pgState = "done" => pgOut = AllBuckets /\ Len(pgReqs) = PageCount + 1)

\* Three buckets in pages of one: four searches, the last one empty.
C1_Witness ==
    /\ C1_Case
    /\ pgState = "done"
    /\ pgBuckets = 3
    /\ Len(pgReqs) = 4
    /\ Len(pgOut) = 3

C10_Composite(body) == body.map["aggs"].map["agg"].map["composite"].map

\* The body with composite.after taken out.
C10_WithoutAfter(body) ==
    LET aggs == body.map["aggs"]
        agg == aggs.map["agg"]
        composite == agg.map["composite"].map
        kept == [k \in DOMAIN composite \ {"after"} |-> composite[k]]
    IN  Map([body.map EXCEPT !["aggs"] =
            Map([aggs.map EXCEPT !["agg"] =
                Map([agg.map EXCEPT !["composite"] = Map(kept)])])])

C10_Cursor(resp) == resp.map["aggregations"].map["agg"].map

\* C10: in composite mode the first search carries the caller's query as it is
\* (no composite.after); every later search carries composite.after equal to the
\* after_key of the response just before it, and is the caller's query otherwise.
C10_RequestsCarryPriorCursor ==
    pgName = "agg" =>
        \A i \in 1..Len(pgReqs) :
            IF i = 1
            THEN /\ pgReqs[1] = pgQuery
                 /\ "after" \notin DOMAIN C10_Composite(pgReqs[1])
            ELSE /\ "after" \in DOMAIN C10_Composite(pgReqs[i])
                 /\ "after_key" \in DOMAIN C10_Cursor(pgResps[i - 1])
                 /\ C10_Composite(pgReqs[i])["after"] = C10_Cursor(pgResps[i - 1])["after_key"]
                 /\ C10_WithoutAfter(pgReqs[i]) = pgQuery

\* A third search, whose cursor differs from the second search's.
C10_Witness ==
    /\ pgName = "agg"
    /\ Len(pgReqs) >= 3
    /\ C10_Composite(pgReqs[3])["after"] # C10_Composite(pgReqs[2])["after"]

-----------------------------------------------------------------------------
(* What the claims about document_exists speak of.                         *)

\* C5: document_exists with delete_if_exists, when its search returns k >= 1
\* hits, issues a delete for every one of the k hits and returns false.
C5_DeletesEveryHit ==
    (gPc = "returned" /\ gDelete /\ gHits # {})
        => /\ gResult = FALSE
           /\ gHits \subseteq {gDeleted[i] : i \in 1..Len(gDeleted)}

-----------------------------------------------------------------------------
(* What the claims about index_to_elasticsearch speak of. The identity of  *)
(* a document under the identity fields <<"k">> is its value of k; two      *)
(* documents without k share the identity "no k".                           *)

SameIdentity(a, b) ==
    /\ ("k" \in DOMAIN a) = ("k" \in DOMAIN b)
    /\ ("k" \in DOMAIN a => a["k"] = b["k"])

\* The stored documents that have the identity of doc.
StoredAs(stored, doc) == {r \in stored : SameIdentity(r.src, doc)}

\* Every document has the identity field and no two have the same identity.
DistinctIdentities(docs) ==
    /\ \A i \in 1..Len(docs) : "k" \in DOMAIN docs[i]
    /\ \A i, j \in 1..Len(docs) : i # j => docs[i]["k"] # docs[j]["k"]

WithIdentity(call) == call.args.identity_fields = << <<"k">> >>

\* Two calls have returned and no call is in progress.
TwoCallsReturned ==
    /\ ixPc = "idle"
    /\ Len(ixCalls) = 2
    /\ ixCalls[1].outcome = "returned"
    /\ ixCalls[2].outcome = "returned"

\* The same stream submitted twice with identity fields and overwrite=false,
\* to an index that held no document with an identity of the stream.
C2_Case ==
    /\ TwoCallsReturned
    /\ ixCalls[1].args.docs = ixCalls[2].args.docs
    /\ WithIdentity(ixCalls[1]) /\ WithIdentity(ixCalls[2])
    /\ ~ixCalls[1].args.overwrite /\ ~ixCalls[2].args.overwrite
    /\ \A i \in 1..Len(ixCalls[1].args.docs) :
          StoredAs(ixCalls[1].before, ixCalls[1].args.docs[i]) = {}

C2_OneCopyEach ==
    \A i \in 1..Len(ixCalls[1].args.docs) :
        Cardinality(StoredAs(store, ixCalls[1].args.docs[i])) = 1

\* C2 as claimed: for any stream, submitting it twice with the same identity
\* fields and overwrite=false leaves exactly one stored document per identity
\* occurring in the stream.
C2_TwiceLeavesOneCopy == C2_Case => C2_OneCopyEach

\* C2 as amended: the same, for streams whose documents all have the identity
\* field and pairwise distinct identities.
C2_TwiceLeavesOneCopyOfDistinct ==
    (C2_Case /\ DistinctIdentities(ixCalls[1].args.docs)) => C2_OneCopyEach

C2_Witness ==
    /\ C2_Case
    /\ DistinctIdentities(ixCalls[1].args.docs)
    /\ Len(ixCalls[1].args.docs) = 2
    /\ Cardinality(store) = 2

\* Stream A without identity fields into an empty index, then stream B with
\* identity fields and overwrite=false, identities distinct within A and B.
C3_Case ==
    /\ TwoCallsReturned
    /\ ixCalls[1].before = {}
    /\ ixCalls[1].args.identity_fields = <<>>
    /\ WithIdentity(ixCalls[2])
    /\ ~ixCalls[2].args.overwrite
    /\ DistinctIdentities(ixCalls[1].args.docs)
    /\ DistinctIdentities(ixCalls[2].args.docs)

\* C3: after A (no identity fields) and then B (identity fields,
\* overwrite=false, any batch size) the index holds exactly one document per
\* identity of A union B: a document of B whose identity was stored is skipped
\* (the stored one stays), every other document of B is stored once.
C3_SecondLoadSkipsStored ==
    C3_Case =>
        LET A == ixCalls[1].args.docs
            B == ixCalls[2].args.docs
            afterA == ixCalls[2].before
        IN  /\ \A i \in 1..Len(A) : Cardinality(StoredAs(afterA, A[i])) = 1
            /\ afterA \subseteq store
            /\ \A r \in store : \/ \E i \in 1..Len(A) : SameIdentity(r.src, A[i])
                                \/ \E i \in 1..Len(B) : SameIdentity(r.src, B[i])
            /\ \A i \in 1..Len(B) :
                /\ Cardinality(StoredAs(store, B[i])) = 1
                /\ IF StoredAs(afterA, B[i]) # {}
                   THEN StoredAs(store, B[i]) = StoredAs(afterA, B[i])
                   ELSE \A r \in StoredAs(store, B[i]) : r.src = B[i]

\* One document of B collides with A, the other is new; B goes in batches of 1.
C3_Witness ==
    /\ C3_Case
    /\ Len(ixCalls[1].args.docs) = 1
    /\ Len(ixCalls[2].args.docs) = 2
    /\ ixCalls[2].args.batch_size = <<1>>
    /\ \E i \in 1..2 : ixCalls[2].args.docs[i] = ixCalls[1].args.docs[1]
    /\ Cardinality(store) = 2

\* C4: after a call with identity fields and overwrite=true has returned, for
\* every document d of the stream the documents stored with d's identity before
\* the call are gone and d is the only stored document of that identity,
\* however many were stored. (Stated for streams of distinct identities.)
C4_OverwriteReplaces ==
    (/\ ixPc = "idle"
     /\ ixCalls # <<>>
     /\ ixCalls[Len(ixCalls)].outcome = "returned"
     /\ WithIdentity(ixCalls[Len(ixCalls)])
     /\ ixCalls[Len(ixCalls)].args.overwrite
     /\ DistinctIdentities(ixCalls[Len(ixCalls)].args.docs))
        => LET call == ixCalls[Len(ixCalls)]
           IN  \A i \in 1..Len(call.args.docs) :
                /\ StoredAs(call.before, call.args.docs[i]) \cap store = {}
                /\ Cardinality(StoredAs(store, call.args.docs[i])) = 1
                /\ \A r \in StoredAs(store, call.args.docs[i]) : r.src = call.args.docs[i]


-----------------------------------------------------------------------------
(* get_response_value in composite mode, the first response.                *)

C11_Case ==
    /\ pgName = "agg"
    /\ pgResps # <<>>
    /\ "after_key" \notin DOMAIN pgResps[1].map["aggregations"].map["agg"].map

\* C11: composite mode, the first response without aggregations.<name>.after_key:
\* the first pull ends in the KeyError of the missing continuation key, no
\* value has been yielded and exactly one search has been sent.
C11_MissingCursorFailsFirstPull ==
    C11_Case =>
        /\ pgState = "KeyError"
        /\ pgOut = <<>>
        /\ Len(pgReqs) = 1
        /\ pgReqs[1] = pgQuery

\* No bucket at all: the first response carries no cursor.
C11_Witness ==
    /\ C11_Case
    /\ pgBuckets = 0
    /\ pgState = "KeyError"
    /\ Len(pgResps) = 1

-----------------------------------------------------------------------------
(* get_response_value in composite mode, a path that stops at the bucket    *)
(* list.                                                                    *)

C12_Case ==
    /\ pgName = "agg"
    /\ pgKeys = BucketsPath

C12_PageSize == pgQuery.map["aggs"].map["agg"].map["composite"].map["size"].num

C12_Min(a, b) == IF a <= b THEN a ELSE b

\* The bucket lists of the non-empty pages, in order.
C12_Pages ==
    [i \in 1..PageCount |->
        List(SubSeq(AllBuckets, (i - 1) * C12_PageSize + 1,
                    C12_Min(i * C12_PageSize, pgBuckets)))]

-----------------------------------------------------------------------------
(* get_response_value without a composite aggregation name.                 *)

C19_Run == recurse_splat_key(pgResps[1], pgKeys)

\* C19: plain mode: no search before the first pull and exactly one, of the
\* caller's query, from then on, whatever the outcome; the values yielded are
\* those recurse_splat_key gives on that response, in its order (none, one or
\* several); an error of the extraction is the outcome of the first pull, with
\* no value yielded and no second search.
C19_PlainModeOneSearchSameValues ==
    pgName = "" /\ pgState # "idle" =>
        IF pgState = "ready" THEN pgReqs = <<>> /\ pgOut = <<>>
        ELSE /\ Len(pgReqs) = 1
             /\ Len(pgResps) = 1
             /\ pgReqs[1] = pgQuery
             /\ pgResps[1] = Search(pgQuery, pgBuckets)
             /\ IF C19_Run.err # "none"
                THEN pgState = C19_Run.err /\ pgOut = <<>>
                ELSE /\ pgState \in {"running", "done"}
                     /\ IsPrefix(pgOut, C19_Run.vals)
                     /\ (pgState = "running" => pgOut # <<>>)
                     /\ (pgState = "done" => pgOut = C19_Run.vals)
                     /\ (C19_Run.vals = <<>> => pgState = "done")

\* Four buckets in pages of two, a wildcard path: the two buckets of the one
\* response, and no second page asked for.
C19_Witness ==
    /\ pgName = ""
    /\ pgState = "done"
    /\ pgKeys = BucketsPath \o <<"*">>
    /\ pgBuckets = 4
    /\ Len(pgOut) = 2
    /\ Len(pgReqs) = 1


-----------------------------------------------------------------------------
(* document_exists without delete_if_exists.                                *)

C13_State ==
    gPc # "idle" /\ ~gDelete =>
        /\ gDeleted = <<>>
        /\ (gPc = "returned" =>
                /\ gResult = (HasEveryField(gDoc, gFields) /\ gHits # {})
                /\ (~HasEveryField(gDoc, gFields) => gSearches = 0))

C13_Step ==
    gPc # "idle" /\ ~gDelete =>
        /\ store' = store
        /\ (gPc = "called" /\ gPc' = "returned" /\ HasEveryField(gDoc, gFields) =>
                /\ gSearches' = gSearches + 1
                /\ gResult' = (Hits(searchable, gDoc, gFields) # {}))

\* C13: delete_if_exists = false: the value returned is true exactly when the
\* document has every identity field and the search of the attempt that
\* returned had a hit; a document lacking an identity field gets false with no
\* search issued; no delete is ever issued and no step changes the stored
\* documents.
C13_NoDeleteReportsHits == []C13_State /\ [][C13_Step]_vars

\* Two stored documents of the document's identity, both seen: true, after one
\* search, with the two still stored.
C13_Witness ==
    /\ gPc = "returned"
    /\ ~gDelete
    /\ gResult
    /\ gSearches = 1
    /\ Cardinality(gHits) = 2
    /\ Cardinality(store) = 2
    /\ gDeleted = <<>>

-----------------------------------------------------------------------------
(* The retries of document_exists and of index_to_elasticsearch.            *)

C15_Ended == ixPc = "idle" /\ ixCalls # <<>>

C15_State ==
    /\ gAttempt <= 5
    /\ ixAttempt <= 5
    /\ (gPc = "raised" => gAttempt = 5 /\ gError # "none")
    /\ (C15_Ended /\ ixCalls[1].outcome # "returned" => ixAttempt = 5 /\ ixError # "none")

C15_Step ==
    \* document_exists: the attempt after a failed one, or the first of a call
    /\ (gAttempt' # gAttempt =>
            \/ gPc = "called" /\ gPc' = "called" /\ gAttempt < 5
                /\ gAttempt' = gAttempt + 1 /\ gError' # "none"
            \/ gPc = "idle" /\ gPc' = "called" /\ gAttempt' = 1)
    \* a failed attempt that is not the fifth is followed by another one
    /\ (gPc = "called" /\ gError' # gError /\ gAttempt < 5 => gAttempt' = gAttempt + 1)
    \* the attempt that returns is the last one
    /\ (gPc \in {"returned", "raised"} => gPc' \in {gPc, "idle"} /\ gAttempt' = gAttempt)
    \* index_to_elasticsearch, likewise
    /\ (ixAttempt' # ixAttempt =>
            \/ ixPc = "failed" /\ ixAttempt < 5 /\ ixAttempt' = ixAttempt + 1
                /\ ixError # "none" /\ ixPc' = AttemptStart(ixTemplate)
            \/ ixPc = "idle" /\ ixCalls = <<>> /\ ixAttempt' = 1)
    /\ (ixPc = "failed" /\ ixPc' # ixPc /\ ixAttempt < 5 => ixAttempt' = ixAttempt + 1)
    /\ (ixPc = "failed" /\ ixPc' # ixPc /\ ixAttempt = 5 => ixPc' = "idle" /\ ixCalls' # ixCalls)
    /\ (ixCalls' # ixCalls => ixPc' = "idle" /\ ixAttempt' = ixAttempt)
    /\ (C15_Ended => ixPc' = "idle" /\ ixAttempt' = ixAttempt)

\* C15: a call of document_exists, and a call of index_to_elasticsearch, makes
\* at most 5 attempts: the attempt counter grows by one only out of a failed
\* attempt and only below 5, the call gives up only after the fifth, and the
\* attempt that succeeds ends the call.
C15_AtMostFiveAttempts == []C15_State /\ [][C15_Step]_vars

\* A call of index_to_elasticsearch that returns from its fifth attempt, after
\* a document_exists that returned from its fifth attempt.
C15_Witness ==
    /\ C15_Ended
    /\ ixCalls[1].outcome = "returned"
    /\ ixAttempt = 5
    /\ gAttempt = 5
    /\ gPc = "idle"
    /\ gError = "TransportError"

\* C16: when document_exists gives up after five attempts that failed with a
\* transport error, the exception its caller receives is that transport error;
\* likewise index_to_elasticsearch.
C16_TransportErrorSurfaces ==
    /\ (gPc = "raised" /\ gError = "TransportError" => gRaised = "TransportError")
    /\ (C15_Ended /\ ixCalls[1].outcome # "returned" /\ ixError = "TransportError"
            => ixCalls[1].outcome = "TransportError")

\* C17: an index_template that is neither a str, a Path nor a dict: the first
\* attempt fails and no other is made, the caller receives the ValueError, and
\* no put_template, refresh, search or bulk request is issued.
C17_InvalidTemplateFailsFast ==
    ixTemplate = "number" =>
        /\ ixAttempt = 1
        /\ ixPc \in {"template", "failed", "idle"}
        /\ (C15_Ended => ixCalls[1].outcome = "ValueError")
        /\ ixTemplated = 0
        /\ gPc = "idle"
        /\ store = ixBefore


-----------------------------------------------------------------------------
(* recurse_splat_key and its arguments.                                     *)

\* C18: no step of a traversal, be it a pull that yields, that ends or that
\* raises, or the consumer dropping the generator, changes the input tree or
\* the caller's path list.
C18_ArgumentsUnchanged == [][exData' = exData /\ exKeys' = exKeys]_vars

\* A path of a literal key and a wildcard, dropped after one value of several:
\* the frame has popped the key off its own list.
C18_Witness ==
    /\ exState = "closed"
    /\ exKeys = <<"a", "*">>
    /\ Len(exOut) = 1
    /\ Len(recurse_splat_key(exData, exKeys).vals) >= 2

\* A traversal that popped two keys and failed.
C18_WitnessFailed ==
    /\ exState = "RecursedToKeyError"
    /\ Len(exKeys) = 3
    /\ AllLiteral(exKeys)
    /\ PopReached(exData, exKeys)
    /\ PopReached(exData.map[exKeys[1]], Tail(exKeys))


-----------------------------------------------------------------------------
(* check_elasticsearch.                                                     *)

C14_Ended == hPc = "idle" /\ hChecks >= 1

\* One cluster.health() request per call, none repeated.
C14_OneRequest ==
    /\ hRequests <= hChecks
    /\ (hPc \in {"idle", "info"} => hRequests = hChecks)

\* C14: check_elasticsearch issues one cluster.health() request and never a
\* second; once ended, its outcome is ElasticsearchUnreachableError when that
\* request failed with a connection error, ElasticsearchNotReadyError when the
\* status it reported is red, and a normal return when it is yellow or green.
C14_OutcomeFollowsHealth ==
    /\ C14_OneRequest
    /\ (C14_Ended =>
            /\ (hHealth = "ConnectionError" => hOutcome = "ElasticsearchUnreachableError")
            /\ (hHealth = "red" => hOutcome = "ElasticsearchNotReadyError")
            /\ (hHealth \in {"yellow", "green"} => hOutcome = "returned"))

\* C14, amended: one cluster.health() request and never a second; once ended,
\* the outcome is ElasticsearchUnreachableError when that request or the
\* info() request after it failed with a connection error; with both requests
\* answered, ElasticsearchNotReadyError for the status red and a normal return
\* for yellow or green; another exception of either request reaches the
\* caller as it is.
C14_OutcomeFollowsHealthAndInfo ==
    /\ C14_OneRequest
    /\ (C14_Ended =>
            /\ (hHealth = "ConnectionError" \/ hInfo = "ConnectionError"
                    => hOutcome = "ElasticsearchUnreachableError")
            /\ (hHealth = "red" /\ hInfo = "ok" => hOutcome = "ElasticsearchNotReadyError")
            /\ (hHealth \in {"yellow", "green"} /\ hInfo = "ok" => hOutcome = "returned")
            /\ (hHealth = "TransportError" \/ hInfo = "TransportError"
                    => hOutcome = "TransportError")
            /\ (hInfo # "none" <=> hHealth \in Statuses))

\* A second call, on a cluster that was yellow and has turned red: not ready,
\* after one request of each call.
C14_Witness ==
    /\ C14_Ended
    /\ hChecks = 2
    /\ hRequests = 2
    /\ hHealth = "red"
    /\ hInfo = "ok"
    /\ hOutcome = "ElasticsearchNotReadyError"

-----------------------------------------------------------------------------
(* Two composite paginations from one query object.                         *)

C20_Case == pgName = "agg" /\ DOMAIN twState = Inst

\* The caller's query: the composite aggregation with its size and no cursor.
C20_Query == C10_WithoutAfter(pgQuery)

RECURSIVE C20_Pages(_, _)

\* The values of a pagination on its own from the request `body` on, with
\* value_keys `keys`, and how it ends.
C20_Pages(body, keys) ==
    LET resp == Search(body, pgBuckets)
        r == recurse_splat_key(resp, keys)
    IN  IF r.err # "none" \/ r.vals = <<>> \/ r.vals = <<List(<<>>)>>
        THEN [vals |-> <<>>, err |-> r.err]
        ELSE LET rest == C20_Pages(UpdateAfter(body, C10_Cursor(resp)["after_key"]), keys)
             IN  [vals |-> r.vals \o rest.vals, err |-> rest.err]

\* The run of get_response_value(query, keys) alone on the data.
C20_Alone(keys) ==
    IF "after_key" \notin DOMAIN C10_Cursor(Search(C20_Query, pgBuckets))
    THEN [vals |-> <<>>, err |-> "KeyError"]
    ELSE C20_Pages(C20_Query, keys)

\* C20: two composite paginations made from the same query object and pulled
\* in any order: each has received a prefix of the values it yields alone on
\* the same data, all of them when it has ended, and ends as it does alone;
\* its first request is the caller's query without a cursor and each later
\* request carries the after_key of its own previous response; the caller's
\* query object is as it was.
C20_InterleavedPaginationsIndependent ==
    C20_Case =>
        /\ pgQuery = C20_Query
        /\ \A i \in Inst :
            LET alone == C20_Alone(twKeys[i])
            IN  /\ IsPrefix(twOut[i], alone.vals)
                /\ twState[i] \in {"ready", "running", "done", alone.err}
                /\ (twState[i] = "done" => alone.err = "none")
                /\ (twState[i] \notin {"ready", "running"} => twOut[i] = alone.vals)
                /\ \A j \in 1..Len(twReqs[i]) :
                    IF j = 1 THEN twReqs[i][1] = C20_Query
                    ELSE /\ C10_WithoutAfter(twReqs[i][j]) = C20_Query
                         /\ "after" \in DOMAIN C10_Composite(twReqs[i][j])
                         /\ C10_Composite(twReqs[i][j])["after"]
                                = C10_Cursor(twResps[i][j - 1])["after_key"]

\* The first generator is at its third page when the second one, made from
\* the same query object, has its first: the second's request has no cursor,
\* and both go on.
C20_Witness ==
    /\ C20_Case
    /\ twKeys[1] = BucketsPath \o <<"*">>
    /\ twKeys[2] = BucketsPath \o <<"*", "key">>
    /\ Len(twReqs[1]) = 3
    /\ Len(twReqs[2]) = 2
    /\ twState[1] = "running"
    /\ twState[2] = "running"
    /\ C10_Composite(twReqs[1][3])["after"] # C10_Composite(twReqs[2][2])["after"]


-----------------------------------------------------------------------------
(* get_response_value in composite mode: the pages one after the other.     *)

C21_Vals(j) == recurse_splat_key(pgResps[j], pgKeys).vals

RECURSIVE C21_Handed(_)

\* The values of the pages 1..n, page after page.
C21_Handed(n) == IF n = 0 THEN <<>> ELSE C21_Handed(n - 1) \o C21_Vals(n)

C21_State ==
    pgName = "agg" /\ pgResps # <<>> =>
        LET n == Len(pgResps)
        IN  /\ Len(pgReqs) = n
            /\ pgOut = C21_Handed(n - 1) \o SubSeq(C21_Vals(n), 1, pgPos)
            /\ (pgState = "running" => pgPos >= 1)

C21_Step ==
    pgName = "agg" =>
        /\ Len(pgOut') <= Len(pgOut) + 1
        /\ (Len(pgReqs') # Len(pgReqs) =>
                /\ Len(pgReqs') = Len(pgReqs) + 1
                /\ (pgReqs # <<>> =>
                        /\ pgState = "running"
                        /\ pgPos = Len(C21_Vals(Len(pgResps)))))

\* C21: composite mode: every step is one pull of the consumer, hands over at
\* most one value and sends at most one search; a search beyond the first is
\* sent only in a pull that finds every value of the page at hand handed over;
\* the values received are those of the pages in the order the pages were
\* asked for, all of every page but the last one asked; and while the
\* generator is not ended the last page asked is the one that holds the last
\* value received, so that a consumer who stops there has caused no search
\* beyond it.
C21_PagesFetchedOnDemand == []C21_State /\ [][C21_Step]_vars

\* Four buckets in pages of two: the consumer holds three values after two
\* searches, the second page not yet used up.
C21_Witness ==
    /\ pgName = "agg"
    /\ pgKeys = BucketsPath \o <<"*">>
    /\ pgBuckets = 4
    /\ pgState = "running"
    /\ Len(pgReqs) = 2
    /\ Len(pgOut) = 3
    /\ pgPos = 1

-----------------------------------------------------------------------------
(* get_response_value and the caller's query object.                        *)

C22_State ==
    pgState # "idle" =>
        "after" \notin DOMAIN pgQuery.map["aggs"].map["agg"].map["composite"].map

\* C22: in composite mode and in plain mode, no pull changes the caller's
\* query object, whether it yields, ends the generator or raises; at every
\* point the object carries no composite.after.
C22_CallerQueryUnchanged == []C22_State /\ [][pgQuery' = pgQuery]_vars

\* A pagination ended after three searches: the generator's own query carries
\* the last cursor, the caller's carries none.
C22_Witness ==
    /\ pgName = "agg"
    /\ pgState = "done"
    /\ Len(pgReqs) = 3
    /\ pgLocal.own
    /\ "after" \in DOMAIN pgLocal.body.map["aggs"].map["agg"].map["composite"].map
    /\ pgLocal.body # pgQuery

-----------------------------------------------------------------------------
(* get_response_value in composite mode over no data.                       *)

\* C26: composite mode over a dataset with no bucket: the first pull ends the
\* generator normally, with no value yielded.
C26_EmptyDatasetEndsNormally ==
    pgName = "agg" /\ pgBuckets = 0 /\ pgState \notin {"idle", "ready"} =>
        /\ pgState = "done"
        /\ pgOut = <<>>

-----------------------------------------------------------------------------
(* C24: the slices of batch() and the bulk() calls of a call that returned. *)

C24_Ceil(len, n) == (len + n - 1) \div n

RECURSIVE C24_Concat(_)
C24_Concat(slices) ==
    IF slices = <<>> THEN <<>> ELSE slices[1] \o C24_Concat(Tail(slices))

\* batch(docs, n) is ceil(len(docs)/n) slices; slice j is the documents
\* (j-1)n+1 .. jn of docs in their order (up to the end of docs for the last
\* one), so every slice but the last has n documents, the last has between 1
\* and n, and the slices put end to end are docs.
C24_SlicesOf(docs, n) ==
    LET b == batch(docs, n)
        l == Len(docs)
    IN  /\ Len(b) = C24_Ceil(l, n)
        /\ \A j \in 1..Len(b) :
            /\ Len(b[j]) = IF j < Len(b) THEN n ELSE l - (Len(b) - 1) * n
            /\ Len(b[j]) \in 1..n
            /\ \A i \in 1..Len(b[j]) : b[j][i] = docs[(j - 1) * n + i]
        /\ C24_Concat(b) = docs

C24_Lists == {[i \in 1..k |-> i] : k \in 0..MaxList}

C24_Slices == \A docs \in C24_Lists, n \in 1..MaxSlice : C24_SlicesOf(docs, n)

C24_Count(log, op) == Cardinality({i \in 1..Len(log) : log[i] = op})

\* The call in hand has returned (nothing has been called since).
C24_Returned ==
    /\ ixPc = "idle"
    /\ ixCalls # <<>>
    /\ ixCalls[Len(ixCalls)].outcome = "returned"

\* (The table of batch() does not depend on the state; it is evaluated once,
\* before the first call.)
\* C24: batch(docs, n), n >= 1, yields ceil(len(docs)/n) contiguous slices in
\* input order, each of length n except possibly the last, whose concatenation
\* is docs; and the attempt of index_to_elasticsearch that returned called
\* bulk() once per slice of the stream when batch_size is set, once when it is
\* not.
C24_OneBulkPerSlice ==
    /\ ixCalls = <<>> /\ ixPc = "idle" => C24_Slices
    /\ ixArgs # <<>> /\ ixArgs.batch_size # <<>> =>
        C24_SlicesOf(ixArgs.docs, ixArgs.batch_size[1])
    /\ C24_Returned =>
        C24_Count(ixLog, "bulk") =
            IF ixArgs.batch_size = <<>> THEN 1
            ELSE C24_Ceil(Len(ixArgs.docs), ixArgs.batch_size[1])

\* Two documents in batches of one: two bulk() calls.
C24_Witness ==
    /\ C24_Returned
    /\ ixArgs.batch_size = <<1>>
    /\ Len(ixArgs.docs) = 2
    /\ C24_Count(ixLog, "bulk") = 2

-----------------------------------------------------------------------------
(* C23: the order of the calls of an attempt of index_to_elasticsearch.     *)

C23_Has(op) == \E i \in 1..Len(ixLog) : ixLog[i] = op

\* A usable template is registered by the first call of the attempt and by no
\* later one; without a usable template nothing is registered.
C23_TemplateFirst ==
    IF ixTemplate \in {"dict", "path"}
    THEN ixLog # <<>> =>
            /\ ixLog[1] = "put_template"
            /\ \A i \in 2..Len(ixLog) : ixLog[i] # "put_template"
    ELSE ~C23_Has("put_template")

\* Every existence search comes after the refresh that opens the bulk
\* submission it belongs to.
C23_RefreshBeforeSearch ==
    \A i \in 1..Len(ixLog) :
        ixLog[i] \in {"search", "delete"} =>
            \E j \in 1..(i - 2) :
                /\ ixLog[j] = "bulk"
                /\ ixLog[j + 1] = "refresh"
                /\ \A k \in (j + 1)..i : ixLog[k] # "bulk"

\* C23: in every attempt of index_to_elasticsearch the registration of the
\* template, when one is supplied, precedes every refresh, search, delete and
\* bulk call; with identity_fields set every bulk submission (every batch)
\* begins with a refresh, before its first existence search; with
\* identity_fields not set no refresh and no existence search is issued.
C23_CallOrder ==
    ixArgs # <<>> =>
        /\ C23_TemplateFirst
        /\ IF ixArgs.identity_fields # <<>>
           THEN /\ C23_RefreshBeforeSearch
                /\ \A i \in 1..Len(ixLog) :
                    ixLog[i] = "bulk" /\ i < Len(ixLog) => ixLog[i + 1] = "refresh"
           ELSE ~C23_Has("refresh") /\ ~C23_Has("search") /\ ~C23_Has("delete")

\* A template, then two batches, each refreshed before its search.
C23_Witness ==
    /\ ixTemplate = "dict"
    /\ ixArgs # <<>>
    /\ ixArgs.identity_fields # <<>>
    /\ Len(ixLog) >= 7
    /\ SubSeq(ixLog, 1, 4) = <<"put_template", "bulk", "refresh", "search">>
    /\ \E i \in 5..(Len(ixLog) - 2) :
        SubSeq(ixLog, i, i + 2) = <<"bulk", "refresh", "search">>

\* No identity fields: a template and the bulk call, nothing else.
C23_WitnessPlain ==
    /\ ixTemplate = "path"
    /\ ixArgs # <<>>
    /\ ixArgs.identity_fields = <<>>
    /\ ixLog = <<"put_template", "bulk">>
    /\ ixPc = "idle"

-----------------------------------------------------------------------------
(* C25: what the attempt that returned has processed.                       *)

\* The call in hand has returned.
C25_Returned ==
    /\ ixPc = "idle"
    /\ ixCalls # <<>>
    /\ ixCalls[Len(ixCalls)].outcome = "returned"

\* Document d is stored, or with identity fields a document of its identity is.
C25_Kept(d) ==
    \E r \in store :
        \/ r.src = d
        \/ ixArgs.identity_fields # <<>> /\ SameIdentity(r.src, d)

\* C25: when the call has returned, the attempt that returned took every
\* document of the stream from its first one, and every document of the stream
\* was submitted by it or skipped as a stored duplicate, so that each is in
\* the index; also after failed attempts and for a stream that can be
\* consumed only once.
C25_ReturnedMeansWholeStream ==
    C25_Returned =>
        /\ ixSeen = Len(ixArgs.docs)
        /\ \A i \in 1..Len(ixArgs.docs) : C25_Kept(ixArgs.docs[i])

\* The same for the calls whose docs is a list.
C25_ReturnedMeansWholeList ==
    C25_Returned /\ ~ixStream.oneshot =>
        /\ ixSeen = Len(ixArgs.docs)
        /\ \A i \in 1..Len(ixArgs.docs) : C25_Kept(ixArgs.docs[i])

\* A list, a failed attempt after the first document, then the return.
C25_ListWitness ==
    /\ C25_Returned
    /\ ~ixStream.oneshot
    /\ ixAttempt >= 2
    /\ ixSeen = 2

====
